---- MODULE Spec2Model ----
(***************************************************************************)
(* CloudBridge: the cost cache (src/src/db.rs), the provider adapters      *)
(* (src/src/cloud/aws.rs, aliyun.rs, deepseek.rs) and the dashboard's      *)
(* batch refresh (src/src/ui/dashboard.rs).                                *)
(*                                                                         *)
(* Conventions.  Option<T> is a sequence: << >> is None, <<v>> is Some(v). *)
(* The wall clock `now` counts hours; ISO dates are numbered 1..MaxDate in *)
(* calendar order, so that the string comparisons of the SQL queries are   *)
(* integer comparisons.  Amounts are integers; the cost sets are chosen so *)
(* that every percentage the adapters compute is an exact integer.         *)
(***************************************************************************)
EXTENDS Integers, Sequences, FiniteSets, TLC

None == << >>
Some(v) == << v >>

\* ------------------------------------------------------------------ bounds

\* The clock runs from 0 to MaxTime hours, in steps of TickHours.
MaxTime == 12
TickHours == 6
\* Dates 1..MaxDate; a trend range is [start, end) with end <= MaxDate + 1.
MaxDate == 2
\* The refreshes the dashboard starts in one run.
MaxRefreshes == 2

\* --------------------------------------------------------------- constants

\* db.rs: const CACHE_TTL_HOURS: i64 = 6;
CACHE_TTL_HOURS == 6

AccountIds == {"a1", "a2"}
Dates == 1..MaxDate
Times == 0..MaxTime
BatchIds == 1..MaxRefreshes

\* cloud/mod.rs: enum CloudProvider
CloudProvider == {"AWS", "Aliyun", "Azure", "GCP"}

\* The currency each adapter reports: aws.rs takes the unit of the response
\* (default "USD"), aliyun.rs hard-codes "CNY".
CurrencyOf(provider) == IF provider = "Aliyun" THEN "CNY" ELSE "USD"

\* ------------------------------------------------------------------- state

VARIABLES
    now,            \* Utc::now(), in hours
    accounts,       \* table cloud_accounts: its rows [id, name, provider, enabled],
                    \* in the order SELECT returns them
    summary_cache,  \* table cost_summary_cache: account_id -> Option<row>
    trend_cache,    \* table cost_trend_cache: account_id -> date -> Option<row>
    hist_summary,   \* history: the last summary put per account since the
                    \* last invalidation, with the time of the put
    hist_trend,     \* history: the last amount put per (account, date) since
                    \* the last invalidation, with the time of the put
    last_call,      \* history: the most recent call of a db.rs cache function,
                    \* of an adapter method or of an aggregation made on its
                    \* own, outside a refresh; before such a call, its arguments
                    \* and what the provider is going to answer
    batch,          \* the refreshes of the dashboard: per refresh, its worker
                    \* thread, its channel and the task waiting on the channel
    ui,             \* DashboardView: summaries, loading, error
    fetched,        \* history: per account, the summary of the last successful
                    \* adapter call of a refresh since the last invalidation
    db_lock,        \* DB_CONNECTION: the guard of the mutex, the rows behind it
                    \* and the threads calling the functions of db.rs
    trend_view      \* DashboardView: expanded_account, cost_trends,
                    \* loading_trends, and the trend loads started

orch_vars == << batch, ui, fetched >>
cache_vars == << summary_cache, trend_cache, hist_summary, hist_trend, last_call >>
conc_vars == << db_lock, trend_view >>

\* get_all_accounts: the provider column is text; the four names of the enum
\* are read back as written, any other text is read as AWS.
ProviderFromStr(provider_str) ==
    IF provider_str \in CloudProvider THEN provider_str ELSE "AWS"

\* get_all_accounts: the CloudAccount built from a row.
LoadAccount(row) == [ row EXCEPT !.provider = ProviderFromStr(@) ]

\* The account with the given id, as get_all_accounts returns it.
Account(id) == LoadAccount(accounts[CHOOSE i \in 1..Len(accounts) : accounts[i].id = id])

\* ------------------------------------------------------ db.rs: the cache

\* A lookup that already expires a row at an age of exactly the TTL.
get_cached_cost_summary_expiring_at_ttl(cache, t, account_id, account_name, provider) ==
    IF cache[account_id] = None
    THEN None
    ELSE LET row == cache[account_id][1] IN
         IF t - row.cached_at >= CACHE_TTL_HOURS
         THEN None
         ELSE Some([ account_id              |-> account_id,
                     account_name            |-> account_name,
                     provider                |-> provider,
                     current_month_cost      |-> row.current_month_cost,
                     last_month_cost         |-> row.last_month_cost,
                     currency                |-> row.currency,
                     month_over_month_change |-> row.month_over_month_change ])

\* get_cached_cost_summary_with_account: the row of the account, unless it is
\* older than the TTL; account_name and provider come from the caller.
get_cached_cost_summary_with_account(cache, t, account_id, account_name, provider) ==
    IF cache[account_id] = None
    THEN None
    ELSE LET row == cache[account_id][1] IN
         IF t - row.cached_at > CACHE_TTL_HOURS
         THEN None
         ELSE Some([ account_id              |-> account_id,
                     account_name            |-> account_name,
                     provider                |-> provider,
                     current_month_cost      |-> row.current_month_cost,
                     last_month_cost         |-> row.last_month_cost,
                     currency                |-> row.currency,
                     month_over_month_change |-> row.month_over_month_change ])

\* save_cost_summary_cache: INSERT OR REPLACE of the account's row, stamped now.
save_cost_summary_cache(cache, t, summary) ==
    [ cache EXCEPT ![summary.account_id] =
        Some([ current_month_cost      |-> summary.current_month_cost,
               last_month_cost         |-> summary.last_month_cost,
               currency                |-> summary.currency,
               month_over_month_change |-> summary.month_over_month_change,
               cached_at               |-> t ]) ]

\* The dates of the account's rows with start_date <= date < end_date.
TrendRowDates(cache, account_id, start_date, end_date) ==
    { d \in Dates : /\ cache[account_id][d] # None
                    /\ d >= start_date
                    /\ d < end_date }

\* The elements of a finite set of integers in ascending order (ORDER BY date).
RECURSIVE SortedSeq(_)
SortedSeq(S) ==
    IF S = {} THEN << >>
    ELSE LET m == CHOOSE x \in S : \A y \in S : x <= y
         IN << m >> \o SortedSeq(S \ {m})

\* A lookup that checks the TTL against the newest row of the range.
get_cached_cost_trend_by_newest(cache, t, account_id, start_date, end_date) ==
    LET rows == SortedSeq(TrendRowDates(cache, account_id, start_date, end_date))
        newest_cache ==
            CHOOSE c \in { cache[account_id][d][1].cached_at : d \in
                              TrendRowDates(cache, account_id, start_date, end_date) } :
                \A d \in TrendRowDates(cache, account_id, start_date, end_date) :
                    c >= cache[account_id][d][1].cached_at
    IN IF rows = << >>
       THEN None
       ELSE IF t - newest_cache > CACHE_TTL_HOURS
            THEN None
            ELSE Some([ account_id  |-> account_id,
                        currency    |-> cache[account_id][rows[Len(rows)]][1].currency,
                        daily_costs |-> [ i \in 1..Len(rows) |->
                                            [ date   |-> rows[i],
                                              amount |-> cache[account_id][rows[i]][1].amount ] ] ])

\* get_cached_cost_trend: the rows of the range, unless there is none or the
\* oldest of them is older than the TTL.
get_cached_cost_trend(cache, t, account_id, start_date, end_date) ==
    LET rows == SortedSeq(TrendRowDates(cache, account_id, start_date, end_date))
        oldest_cache ==
            CHOOSE c \in { cache[account_id][d][1].cached_at : d \in
                              TrendRowDates(cache, account_id, start_date, end_date) } :
                \A d \in TrendRowDates(cache, account_id, start_date, end_date) :
                    c <= cache[account_id][d][1].cached_at
    IN IF rows = << >>
       THEN None
       ELSE IF t - oldest_cache > CACHE_TTL_HOURS
            THEN None
            ELSE Some([ account_id  |-> account_id,
                        currency    |-> cache[account_id][rows[Len(rows)]][1].currency,
                        daily_costs |-> [ i \in 1..Len(rows) |->
                                            [ date   |-> rows[i],
                                              amount |-> cache[account_id][rows[i]][1].amount ] ] ])

\* save_cost_trend_cache: one INSERT OR REPLACE per daily cost of the trend,
\* all stamped with the same now; rows of other dates are left as they are.
save_cost_trend_cache(cache, t, trend) ==
    [ cache EXCEPT ![trend.account_id] =
        [ d \in Dates |->
            IF \E i \in 1..Len(trend.daily_costs) : trend.daily_costs[i].date = d
            THEN LET i == CHOOSE j \in 1..Len(trend.daily_costs) :
                              /\ trend.daily_costs[j].date = d
                              /\ \A k \in (j+1)..Len(trend.daily_costs) :
                                     trend.daily_costs[k].date # d
                 IN Some([ amount    |-> trend.daily_costs[i].amount,
                           currency  |-> trend.currency,
                           cached_at |-> t ])
            ELSE cache[trend.account_id][d] ] ]

\* clear_account_cache: DELETE the account's rows from both tables.
clear_account_summary(cache, account_id) == [ cache EXCEPT ![account_id] = None ]
clear_account_trend(cache, account_id) ==
    [ cache EXCEPT ![account_id] = [ d \in Dates |-> None ] ]

\* clear_all_cache: DELETE FROM cost_summary_cache; DELETE FROM cost_trend_cache.
clear_all_summary(cache) == [ a \in AccountIds |-> None ]
\* A clear_all_cache without its second DELETE.
clear_all_trend_skipped(cache) == cache
clear_all_trend(cache) == [ a \in AccountIds |-> [ d \in Dates |-> None ] ]

\* ------------------------------------------------- cloud: provider adapters

\* aws.rs:223, aliyun.rs:130: timeout_global(Duration::from_secs(30))
FETCH_TIMEOUT_SECS == 30

Ok(v) == [ ok |-> TRUE, val |-> v ]
Err(e) == [ ok |-> FALSE, err |-> e ]

\* What one billing request can come to: a parsed answer with the total of its
\* amounts, or a failure (ureq transport error, the 30 s timeout, an HTTP
\* status >= 400 or a business error code, a body serde cannot parse), each
\* after `dur` seconds.
OkResponse(amount, dur) == [ kind |-> "ok", amount |-> amount, dur |-> dur ]
FailResponse(kind, dur) == [ kind |-> kind, amount |-> 0, dur |-> dur ]
FailureKinds == {"transport", "timeout", "auth", "parse"}

\* ((current - last) / last) * 100.0
Pct(current, last) == ((current - last) * 100) \div last

\* aws.rs get_cost_summary, lines 635-640.
AwsMonthOverMonth(current_month_cost, last_month_cost) ==
    IF last_month_cost > 0
    THEN Pct(current_month_cost, last_month_cost)
    ELSE 0

\* aliyun.rs get_cost_summary, lines 278-285.
AliyunMonthOverMonth(current_month_cost, last_month_cost) ==
    IF last_month_cost > 0
    THEN Pct(current_month_cost, last_month_cost)
    ELSE IF current_month_cost > 0 THEN 100 ELSE 0

\* AwsCloudService::get_cost_summary: the current month's request, then the
\* last month's, each returning early on failure (the ? operator).
AwsGetCostSummary(account_id, account_name, current, last) ==
    IF current.kind # "ok" THEN Err(current.kind)
    ELSE IF last.kind # "ok" THEN Err(last.kind)
    ELSE Ok([ account_id              |-> account_id,
              account_name            |-> account_name,
              provider                |-> "AWS",
              current_month_cost      |-> current.amount,
              last_month_cost         |-> last.amount,
              currency                |-> "USD",
              month_over_month_change |-> AwsMonthOverMonth(current.amount, last.amount) ])

\* AliyunCloudService::get_cost_summary: two query_bill_overview requests.
AliyunGetCostSummary(account_id, account_name, current, last) ==
    IF current.kind # "ok" THEN Err(current.kind)
    ELSE IF last.kind # "ok" THEN Err(last.kind)
    ELSE Ok([ account_id              |-> account_id,
              account_name            |-> account_name,
              provider                |-> "Aliyun",
              current_month_cost      |-> current.amount,
              last_month_cost         |-> last.amount,
              currency                |-> "CNY",
              month_over_month_change |-> AliyunMonthOverMonth(current.amount, last.amount) ])

\* DeepSeekService::get_cost_summary: the balance stands in for the current
\* month's cost; last month and the change are fixed at 0.
DeepSeekGetCostSummary(account_id, account_name, balance) ==
    IF balance.kind # "ok" THEN Err(balance.kind)
    ELSE Ok([ account_id              |-> account_id,
              account_name            |-> account_name,
              provider                |-> "DeepSeek",
              current_month_cost      |-> balance.amount,
              last_month_cost         |-> 0,
              currency                |-> "CNY",
              month_over_month_change |-> 0 ])

\* The seconds get_cost_summary takes: the second request is only made when
\* the first succeeded.
SummaryDuration(current, last) ==
    IF current.kind # "ok" THEN current.dur ELSE current.dur + last.dur

\* AwsCloudService::validate_credentials: the STS error is passed on.  A body
\* without the expected tags is no error: parse_sts_response defaults them.
AwsValidateCredentials(identity) ==
    IF identity.kind \in {"ok", "parse"} THEN Ok(TRUE) ELSE Err(identity.kind)

\* AliyunCloudService::validate_credentials: any failure of the bill overview
\* request is logged and becomes Ok(false).
AliyunValidateCredentials(overview) ==
    IF overview.kind = "ok" THEN Ok(TRUE) ELSE Ok(FALSE)

\* DeepSeekService::validate_credentials: likewise for the balance request.
DeepSeekValidateCredentials(balance) ==
    IF balance.kind = "ok" THEN Ok(TRUE) ELSE Ok(FALSE)

\* ------------------------------------------------ the cache functions called

\* The amounts a billing request reports in the cache runs, and the daily
\* amounts of a trend.
PutCosts == {0, 50}
PutLastCosts == {50}
TrendAmounts == {10}

\* The summary the account's adapter builds from two answered requests.
AdapterSummary(account_id, current_amount, last_amount) ==
    IF Account(account_id).provider = "Aliyun"
    THEN AliyunGetCostSummary(account_id, Account(account_id).name,
                              OkResponse(current_amount, 0), OkResponse(last_amount, 0)).val
    ELSE AwsGetCostSummary(account_id, Account(account_id).name,
                           OkResponse(current_amount, 0), OkResponse(last_amount, 0)).val

\* The daily cost lists an adapter's get_cost_trend returns: one entry per
\* date, in ascending order of date (aggregate_daily_costs, aws.rs:721-730;
\* aliyun.rs:340-345).
DailyCostLists ==
    UNION { { s \in [ 1..n -> [ date : Dates, amount : TrendAmounts ] ] :
                \A i \in 1..(n-1) : s[i].date < s[i+1].date } : n \in 0..MaxDate }

TrendDates(daily_costs) == { daily_costs[i].date : i \in 1..Len(daily_costs) }

NoCall == [ fn |-> "none" ]

\* A refresh not started yet.
IdleBatch ==
    [ pc        |-> "idle",   \* idle, load, loop, fetch, send, done
      idx       |-> 0,        \* position of the for loop in the accounts
      summaries |-> << >>,    \* let mut summaries = Vec::new()
      elapsed   |-> 0,        \* seconds since the refresh began
      chan      |-> None,     \* the message in the mpsc channel
      recv      |-> "idle",   \* idle, waiting, ok, err, timeout
      sent      |-> None,     \* history: the value handed to tx.send
      forced    |-> FALSE,    \* history: started by force_refresh
      log       |-> << >> ]   \* history: what the loop did per account

\* DashboardView::new
InitialView == [ summaries |-> << >>, loading |-> TRUE, error |-> None ]

\* The threads that call into db.rs: the worker of a refresh, the worker
\* of a trend load and the UI thread.
DbThreads == {"refresh", "trend", "ui"}

\* A thread outside db.rs: no function entered, no row read yet.
IdleThread == [ fn |-> "none", ip |-> 0, calls |-> 0, stamp |-> 0, seen |-> << >> ]

\* DB_CONNECTION after init_database: nobody holds the guard; the rows of
\* one account in cost_trend_cache carry the number of the save that wrote
\* them, 0 for no row.
IdleLock ==
    [ guard  |-> << >>,
      rows   |-> [ d \in Dates |-> 0 ],
      writes |-> 0,
      th     |-> [ t \in DbThreads |-> IdleThread ] ]

\* DashboardView::new: nothing expanded, no trend, no load.
InitialTrendView ==
    [ expanded_account |-> None,
      cost_trends      |-> {},
      loading_trends   |-> [ a \in AccountIds |-> FALSE ],
      loads            |-> << >> ]

\* Utc::now() moves on.
Tick ==
    /\ now + TickHours <= MaxTime
    /\ now' = now + TickHours
    /\ UNCHANGED << accounts, conc_vars, cache_vars, orch_vars >>

\* db::save_cost_summary_cache(&summary)
SaveSummary(a) ==
    \E current_amount \in PutCosts, last_amount \in PutLastCosts :
        LET summary == AdapterSummary(a, current_amount, last_amount) IN
        /\ summary_cache' = save_cost_summary_cache(summary_cache, now, summary)
        /\ hist_summary' = [ hist_summary EXCEPT ![a] = Some([ summary |-> summary, at |-> now ]) ]
        /\ last_call' = [ fn |-> "save_cost_summary_cache", account_id |-> a ]
        /\ UNCHANGED << now, accounts, conc_vars, orch_vars, trend_cache, hist_trend >>

\* db::get_cached_cost_summary_with_account(&id, &name, &provider)
GetSummary(a) ==
    /\ last_call' = [ fn |-> "get_cached_cost_summary_with_account", account_id |-> a,
                      ret |-> get_cached_cost_summary_with_account(
                                  summary_cache, now, a, Account(a).name, Account(a).provider) ]
    /\ UNCHANGED << now, accounts, conc_vars, orch_vars, summary_cache, trend_cache, hist_summary, hist_trend >>

\* db::save_cost_trend_cache(&trend)
SaveTrend(a) ==
    \E daily_costs \in DailyCostLists :
        LET trend == [ account_id  |-> a,
                       currency    |-> CurrencyOf(Account(a).provider),
                       daily_costs |-> daily_costs ] IN
        /\ trend_cache' = save_cost_trend_cache(trend_cache, now, trend)
        /\ hist_trend' = [ hist_trend EXCEPT ![a] =
                             [ d \in Dates |->
                                 IF d \in TrendDates(daily_costs)
                                 THEN Some([ amount |-> daily_costs[CHOOSE i \in 1..Len(daily_costs) :
                                                             daily_costs[i].date = d].amount,
                                             at |-> now ])
                                 ELSE hist_trend[a][d] ] ]
        /\ last_call' = [ fn |-> "save_cost_trend_cache", account_id |-> a,
                          dates |-> TrendDates(daily_costs), at |-> now ]
        /\ UNCHANGED << now, accounts, conc_vars, orch_vars, summary_cache, hist_summary >>

\* db::get_cached_cost_trend(&id, &start_date, &end_date)
GetTrend(a) ==
    \E start_date \in Dates, end_date \in 1..(MaxDate + 1) :
        /\ start_date < end_date
        /\ last_call' = [ fn |-> "get_cached_cost_trend", account_id |-> a,
                          start_date |-> start_date, end_date |-> end_date,
                          ret |-> get_cached_cost_trend(trend_cache, now, a, start_date, end_date) ]
        /\ UNCHANGED << now, accounts, conc_vars, orch_vars, summary_cache, trend_cache, hist_summary, hist_trend >>

\* db::clear_all_cache(): both tables are emptied.
ClearAllCache ==
    /\ summary_cache' = clear_all_summary(summary_cache)
    /\ trend_cache' = clear_all_trend(trend_cache)
    /\ hist_summary' = [ a \in AccountIds |-> None ]
    /\ hist_trend' = [ a \in AccountIds |-> [ d \in Dates |-> None ] ]

\* db::clear_all_cache() called on its own.
ClearAll ==
    /\ ClearAllCache
    /\ last_call' = [ fn |-> "clear_all_cache",
                      dropped |-> { a \in AccountIds :
                                      /\ summary_cache[a] # None
                                      /\ \E d \in Dates : trend_cache[a][d] # None } ]
    /\ UNCHANGED << now, accounts, conc_vars, orch_vars >>

\* db::clear_account_cache(account_id)
ClearAccount(a) ==
    /\ summary_cache' = clear_account_summary(summary_cache, a)
    /\ trend_cache' = clear_account_trend(trend_cache, a)
    /\ hist_summary' = [ hist_summary EXCEPT ![a] = None ]
    /\ hist_trend' = [ hist_trend EXCEPT ![a] = [ d \in Dates |-> None ] ]
    /\ last_call' = [ fn |-> "clear_account_cache", account_id |-> a ]
    /\ UNCHANGED << now, accounts, conc_vars, orch_vars >>

\* The accounts the Accounts page can add (accounts.rs save_account): enabled,
\* AWS or Aliyun.
AccountRow(id, provider, enabled) ==
    [ id |-> id, name |-> id, provider |-> provider, enabled |-> enabled ]
CacheAccounts == << AccountRow("a1", "AWS", TRUE), AccountRow("a2", "Aliyun", TRUE) >>

InitCache ==
    /\ now = 0
    /\ accounts = CacheAccounts
    /\ summary_cache = [ a \in AccountIds |-> None ]
    /\ trend_cache = [ a \in AccountIds |-> [ d \in Dates |-> None ] ]
    /\ hist_summary = [ a \in AccountIds |-> None ]
    /\ hist_trend = [ a \in AccountIds |-> [ d \in Dates |-> None ] ]
    /\ last_call = NoCall
    /\ batch = [ b \in BatchIds |-> IdleBatch ]
    /\ ui = InitialView
    /\ fetched = [ a \in AccountIds |-> None ]
    /\ db_lock = IdleLock
    /\ trend_view = InitialTrendView

NextCache ==
    \/ Tick
    \/ \E a \in AccountIds : SaveSummary(a)
    \/ \E a \in AccountIds : GetSummary(a)
    \/ \E a \in AccountIds : SaveTrend(a)
    \/ \E a \in AccountIds : GetTrend(a)
    \/ ClearAll
    \/ \E a \in AccountIds : ClearAccount(a)

vars == << now, accounts, cache_vars, orch_vars, conc_vars >>

\* The cache under arbitrary callers.
SpecCache == InitCache /\ [][NextCache]_vars

\* ------------------------------------------- dashboard.rs: the batch refresh

\* rx.recv_timeout(Duration::from_secs(60))
BATCH_TIMEOUT_SECS == 60

\* What a billing request comes to during a refresh.
\* The seconds an answered billing request takes on a slow link.
SlowSecs == 12

\* What a billing request comes to during a refresh.
OrchResponses ==
    { OkResponse(50, SlowSecs), OkResponse(0, 0),
      FailResponse("transport", 0), FailResponse("timeout", FETCH_TIMEOUT_SECS) }

\* The provider arms of the match in refresh: AWS and Aliyun have an adapter,
\* every other provider falls into the `_` arm.
HasAdapter(provider) == provider \in {"AWS", "Aliyun"}

\* service.get_cost_summary() of the account's adapter.
GetCostSummary(account, current, last) ==
    IF account.provider = "AWS"
    THEN AwsGetCostSummary(account.id, account.name, current, last)
    ELSE AliyunGetCostSummary(account.id, account.name, current, last)

\* A channel that keeps a message sent after its receiver is gone.
TrySendKept(recv, msg) == Some(msg)

\* tx.send(msg): the message is queued while the receiver lives; once the
\* receiver is dropped send returns Err and the message is discarded.
TrySend(recv, msg) == IF recv = "waiting" THEN Some(msg) ELSE None

\* A refresh that drops the summary instead of saving it.
WriteThroughSkipped(cache, t, summary) == cache

\* refresh, the Ok arm of get_cost_summary: save_cost_summary_cache(&summary).
WriteThrough(cache, t, summary) == save_cost_summary_cache(cache, t, summary)

\* A loop that gives up on the first account whose adapter fails.
AfterAdapterFailureBreak(idx, n) == n + 1

\* refresh, the Err arm of get_cost_summary: the error is logged and the for
\* loop goes on with the next account.
AfterAdapterFailure(idx, n) == idx + 1

\* A loop that never asks the cache.
CacheFirstSkipped(cache, t, account) == None

\* refresh, lines 76-92: the cache is asked before any adapter.
CacheFirst(cache, t, account) ==
    get_cached_cost_summary_with_account(cache, t, account.id, account.name, account.provider)

\* The account has a row in cost_summary_cache that is not older than the TTL.
FreshRow(account_id) ==
    /\ summary_cache[account_id] # None
    /\ now - summary_cache[account_id][1].cached_at <= CACHE_TTL_HOURS

\* The columns of the account's row as a CostSummary of the account.
RowSummary(account) ==
    LET row == summary_cache[account.id][1] IN
    [ account_id              |-> account.id,
      account_name            |-> account.name,
      provider                |-> account.provider,
      current_month_cost      |-> row.current_month_cost,
      last_month_cost         |-> row.last_month_cost,
      currency                |-> row.currency,
      month_over_month_change |-> row.month_over_month_change ]

\* One entry of a refresh's log.
LogEntry(account, src, timed_out) ==
    [ account_id |-> account.id,
      src        |-> src,        \* cache, api, failed, unsupported
      timed_out  |-> timed_out,  \* the adapter ran into its request timeout
      \* the account had a row in cost_summary_cache, not older than the TTL,
      \* when the loop reached it, and the summary that row holds
      fresh      |-> FreshRow(account.id),
      expect     |-> IF FreshRow(account.id) THEN Some(RowSummary(account)) ELSE None,
      \* an adapter call succeeded for the account within the TTL, and the
      \* cache has not been invalidated since
      warm       |-> /\ fetched[account.id] # None
                     /\ now - fetched[account.id][1].at <= CACHE_TTL_HOURS ]

\* this.refresh(cx): lines 52-57 and 164, the worker thread and the task
\* waiting for its message are spawned.
StartRefresh(b, forced) ==
    /\ batch[b].pc = "idle"
    /\ \A c \in BatchIds : c < b => batch[c].pc # "idle"
    /\ batch' = [ batch EXCEPT ![b] =
            [ IdleBatch EXCEPT !.pc = "load", !.recv = "waiting", !.forced = forced ] ]
    /\ ui' = [ ui EXCEPT !.loading = TRUE, !.error = None ]

\* The Refresh button, and the refresh DashboardView::new schedules.
Refresh ==
    /\ \E b \in BatchIds : StartRefresh(b, FALSE)
    /\ UNCHANGED << now, accounts, conc_vars, cache_vars, fetched >>

\* The Force Refresh button: force_refresh clears the cache tables and the
\* trends the view holds, then refreshes.
ForceRefresh ==
    /\ ClearAllCache
    /\ fetched' = [ a \in AccountIds |-> None ]
    /\ trend_view' = [ trend_view EXCEPT !.cost_trends = {} ]
    /\ \E b \in BatchIds : StartRefresh(b, TRUE)
    /\ UNCHANGED << now, accounts, db_lock, last_call >>

\* Worker thread: crate::db::get_all_accounts().
WorkerLoad(b) ==
    /\ batch[b].pc = "load"
    /\ \E loaded \in BOOLEAN :
           batch' = [ batch EXCEPT ![b] =
               IF loaded
               THEN [ @ EXCEPT !.pc = "loop", !.idx = 1 ]
               ELSE [ @ EXCEPT !.pc = "done",
                               !.sent = Some(Err("Failed to load data")),
                               !.chan = TrySend(batch[b].recv, Err("Failed to load data")) ] ]
    /\ UNCHANGED << now, accounts, conc_vars, cache_vars, ui, fetched >>

\* Worker thread: one round of `for account in accounts`, up to the adapter
\* call.  A disabled account is skipped; a cache hit is pushed; a miss goes to
\* the account's adapter, or is dropped with a warning when there is none.
WorkerLoop(b) ==
    /\ batch[b].pc = "loop"
    /\ batch[b].idx <= Len(accounts)
    /\ LET account == LoadAccount(accounts[batch[b].idx])
           cached  == CacheFirst(summary_cache, now, account)
       IN  IF ~account.enabled
           THEN batch' = [ batch EXCEPT ![b].idx = @ + 1 ]
           ELSE batch' = [ batch EXCEPT ![b] =
                     IF cached # None
                     THEN [ @ EXCEPT !.summaries = Append(@, cached[1]),
                                     !.log = Append(@, LogEntry(account, "cache", FALSE)),
                                     !.idx = @ + 1 ]
                     ELSE IF HasAdapter(account.provider)
                     THEN [ @ EXCEPT !.pc = "fetch",
                                     !.log = Append(@, LogEntry(account, "pending", FALSE)) ]
                     ELSE [ @ EXCEPT !.log = Append(@, LogEntry(account, "unsupported", FALSE)),
                                     !.idx = @ + 1 ] ]
    /\ UNCHANGED << now, accounts, conc_vars, cache_vars, ui, fetched >>

\* Worker thread: service.get_cost_summary() returns.  On Ok the summary is
\* saved to the cache and pushed, on Err the error is logged.
WorkerFetch(b) ==
    /\ batch[b].pc = "fetch"
    /\ \E current \in OrchResponses, last \in OrchResponses :
        LET account == LoadAccount(accounts[batch[b].idx])
            result  == GetCostSummary(account, current, last)
            spent   == batch[b].elapsed + SummaryDuration(current, last)
            entry   == Len(batch[b].log)
        IN  IF result.ok
            THEN /\ summary_cache' = WriteThrough(summary_cache, now, result.val)
                 /\ hist_summary' = [ hist_summary EXCEPT ![account.id] =
                                        Some([ summary |-> result.val, at |-> now ]) ]
                 /\ fetched' = [ fetched EXCEPT ![account.id] =
                                   Some([ summary |-> result.val, at |-> now ]) ]
                 /\ batch' = [ batch EXCEPT ![b] =
                      [ @ EXCEPT !.pc = "loop",
                                 !.idx = @ + 1,
                                 !.elapsed = spent,
                                 !.summaries = Append(@, result.val),
                                 !.log[entry].src = "api" ] ]
            ELSE /\ batch' = [ batch EXCEPT ![b] =
                      [ @ EXCEPT !.pc = "loop",
                                 !.idx = AfterAdapterFailure(@, Len(accounts)),
                                 !.elapsed = spent,
                                 !.log[entry].src = "failed",
                                 !.log[entry].timed_out = (result.err = "timeout") ] ]
                 /\ UNCHANGED << summary_cache, hist_summary, fetched >>
    /\ UNCHANGED << now, accounts, conc_vars, trend_cache, hist_trend, last_call, ui >>

\* Worker thread: tx.send(Ok(summaries)) after the loop.  The message reaches
\* the channel while the receiver waits; once recv_timeout has given up the
\* receiver is dropped and the send fails, which is logged.  After more than
\* BATCH_TIMEOUT_SECS the receiver has given up.
WorkerSend(b) ==
    /\ batch[b].pc = "loop"
    /\ batch[b].idx > Len(accounts)
    /\ ~(batch[b].recv = "waiting" /\ batch[b].elapsed > BATCH_TIMEOUT_SECS)
    /\ batch' = [ batch EXCEPT ![b] =
         [ @ EXCEPT !.pc = "done",
                    !.sent = Some(Ok(batch[b].summaries)),
                    !.chan = TrySend(batch[b].recv, Ok(batch[b].summaries)) ] ]
    /\ UNCHANGED << now, accounts, conc_vars, cache_vars, ui, fetched >>

\* Waiting task: recv_timeout returns the worker's message, and the view is
\* updated from it (lines 172-194).
UiReceive(b) ==
    /\ batch[b].recv = "waiting"
    /\ batch[b].chan # None
    /\ LET result == batch[b].chan[1] IN
         /\ batch' = [ batch EXCEPT ![b].recv = IF result.ok THEN "ok" ELSE "err" ]
         /\ ui' = IF result.ok
                  THEN [ summaries |-> result.val, loading |-> FALSE, error |-> None ]
                  ELSE [ ui EXCEPT !.error = Some(result.err), !.loading = FALSE ]
    /\ UNCHANGED << now, accounts, conc_vars, cache_vars, fetched >>

\* Waiting task: recv_timeout gives up after BATCH_TIMEOUT_SECS without a
\* message, and the view shows the timeout.
UiTimeout(b) ==
    /\ batch[b].recv = "waiting"
    /\ batch[b].chan = None
    /\ batch[b].elapsed >= BATCH_TIMEOUT_SECS
    /\ batch' = [ batch EXCEPT ![b].recv = "timeout" ]
    /\ ui' = [ ui EXCEPT !.error = Some("Data retrieval timeout"), !.loading = FALSE ]
    /\ UNCHANGED << now, accounts, conc_vars, cache_vars, fetched >>

\* The tables of accounts a run starts from.  Rows written by the Accounts
\* page are enabled AWS or Aliyun accounts; the table itself also admits
\* disabled rows, the other providers of the enum, and in its text column a
\* provider name this build does not know.
AccountTables ==
    { << AccountRow("a1", "AWS", TRUE), AccountRow("a2", "Aliyun", TRUE) >>,
      << AccountRow("a1", "AWS", FALSE), AccountRow("a2", "DeepSeek", TRUE) >>,
      << AccountRow("a1", "Azure", TRUE), AccountRow("a2", "AWS", TRUE) >> }

Init ==
    /\ now = 0
    /\ accounts \in AccountTables
    /\ summary_cache = [ a \in AccountIds |-> None ]
    /\ trend_cache = [ a \in AccountIds |-> [ d \in Dates |-> None ] ]
    /\ hist_summary = [ a \in AccountIds |-> None ]
    /\ hist_trend = [ a \in AccountIds |-> [ d \in Dates |-> None ] ]
    /\ last_call = NoCall
    /\ batch = [ b \in BatchIds |-> IdleBatch ]
    /\ ui = InitialView
    /\ fetched = [ a \in AccountIds |-> None ]
    /\ db_lock = IdleLock
    /\ trend_view = InitialTrendView

Next ==
    \/ Tick
    \/ Refresh
    \/ ForceRefresh
    \/ \E b \in BatchIds : WorkerLoad(b)
    \/ \E b \in BatchIds : WorkerLoop(b)
    \/ \E b \in BatchIds : WorkerFetch(b)
    \/ \E b \in BatchIds : WorkerSend(b)
    \/ \E b \in BatchIds : UiReceive(b)
    \/ \E b \in BatchIds : UiTimeout(b)

\* The dashboard: refreshes, their worker threads and the view.
Spec == Init /\ [][Next]_vars

\* ------------------------------------------------ the adapters on their own

\* The amounts a billing request reports, and what a request can come to.
AdapterCosts == {0, 50, 100}
AdapterResponses ==
    { OkResponse(c, 0) : c \in AdapterCosts }
        \cup { FailResponse(k, 0) : k \in FailureKinds \ {"timeout"} }
        \cup { FailResponse("timeout", FETCH_TIMEOUT_SECS) }

\* The adapters of src/src/cloud/: aws.rs, aliyun.rs, deepseek.rs.
Adapters == {"AWS", "Aliyun", "DeepSeek"}

\* service.validate_credentials(), as validate_account of the Accounts page
\* calls it.
CallValidateCredentials(provider) ==
    \E response \in AdapterResponses :
        /\ last_call' = [ fn       |-> "validate_credentials",
                          provider |-> provider,
                          response |-> response,
                          ret      |-> CASE provider = "AWS" -> AwsValidateCredentials(response)
                                         [] provider = "Aliyun" -> AliyunValidateCredentials(response)
                                         [] OTHER -> DeepSeekValidateCredentials(response) ]
        /\ UNCHANGED << now, accounts, conc_vars, summary_cache, trend_cache, hist_summary, hist_trend,
                        orch_vars >>

\* service.get_cost_summary()
CallGetCostSummary(provider) ==
    \E current \in AdapterResponses, last \in AdapterResponses :
        /\ last_call' = [ fn       |-> "get_cost_summary",
                          provider |-> provider,
                          current  |-> current,
                          last     |-> IF provider = "DeepSeek" THEN current ELSE last,
                          ret      |-> CASE provider = "AWS" ->
                                                AwsGetCostSummary("a1", "a1", current, last)
                                         [] provider = "Aliyun" ->
                                                AliyunGetCostSummary("a2", "a2", current, last)
                                         [] OTHER ->
                                                DeepSeekGetCostSummary("a2", "a2", current) ]
        /\ UNCHANGED << now, accounts, conc_vars, summary_cache, trend_cache, hist_summary, hist_trend,
                        orch_vars >>

\* ------------------------------------------------ cost records and trends

\* The cost records a list holds at most.
MaxRecords == 2

\* A date argument: an ISO date, compared as the strings compare, or a string
\* of the same shape that is no calendar date ("2024-13-45"), which sorts
\* behind every date of the model.
IsoDate(d) == [ valid |-> TRUE, rank |-> d ]
MalformedDate == [ valid |-> FALSE, rank |-> MaxDate + 2 ]
DateArgs == { IsoDate(d) : d \in Dates } \cup { MalformedDate }

\* What a provider reports: items dated in and around the dates of the model,
\* with charges, zero lines and credits.
ProviderDates == 0..(MaxDate + 1)
Services == {"EC2", "S3"}
Amounts == {-10, 0, 10}
ProviderItems == [ date : ProviderDates, service : Services, amount : Amounts ]
ItemLists == UNION { [ 1..n -> ProviderItems ] : n \in 0..MaxRecords }

\* The answer to a request for items: a parsed body or a failure.
OkItems(items) == [ kind |-> "ok", items |-> items ]
FailItems(kind) == [ kind |-> kind, items |-> << >> ]
ItemResponses == { OkItems(items) : items \in ItemLists } \cup { FailItems(k) : k \in FailureKinds }

CostData(account_id, item, currency) ==
    [ account_id |-> account_id, date |-> item.date, service |-> item.service,
      amount |-> item.amount, currency |-> currency ]

RECURSIVE MapCostData(_, _, _)
MapCostData(account_id, items, currency) ==
    IF items = << >> THEN << >>
    ELSE << CostData(account_id, Head(items), currency) >>
             \o MapCostData(account_id, Tail(items), currency)

\* parse_cost_explorer_response: one CostData per group of every period of
\* the answer, for the groups with an amount above zero.
parse_cost_explorer_response(items, account_id) ==
    LET Positive(item) == item.amount > 0 IN
    MapCostData(account_id, SelectSeq(items, Positive), "USD")

\* AwsCloudService::get_cost_data: call_cost_explorer(start_date, end_date).
\* The dates go into the request body as they are; the answer is parsed and
\* returned without a look at its dates.
AwsGetCostData(account_id, start_date, end_date, response) ==
    [ requests |-> 1,
      ret      |-> IF response.kind # "ok" THEN Err(response.kind)
                   ELSE Ok(parse_cost_explorer_response(response.items, account_id)) ]

\* AliyunCloudService::get_cost_data: the instance bill of the month of
\* start_date is requested, and the items with start <= date <= end are kept.
AliyunGetCostData(account_id, start_date, end_date, response) ==
    LET InWindow(item) == item.date >= start_date.rank /\ item.date <= end_date.rank IN
    [ requests |-> 1,
      ret      |-> IF response.kind # "ok" THEN Err(response.kind)
                   ELSE Ok(MapCostData(account_id, SelectSeq(response.items, InWindow), "CNY")) ]

\* A call about to be made: the method, the adapter, the arguments and what
\* the provider is going to answer.
GetCostDataInputs ==
    [ fn : {"input"}, method : {"get_cost_data"}, provider : {"AWS", "Aliyun"},
      start_date : DateArgs, end_date : DateArgs, response : ItemResponses ]

\* service.get_cost_data(start_date, end_date)
CallGetCostData(provider) ==
    /\ last_call.fn = "input"
    /\ last_call.method = "get_cost_data"
    /\ last_call.provider = provider
    /\ last_call' = [ fn         |-> "get_cost_data",
                      provider   |-> provider,
                      start_date |-> last_call.start_date,
                      end_date   |-> last_call.end_date,
                      response   |-> last_call.response,
                      out        |-> IF provider = "AWS"
                                     THEN AwsGetCostData("a1", last_call.start_date,
                                                         last_call.end_date, last_call.response)
                                     ELSE AliyunGetCostData("a2", last_call.start_date,
                                                            last_call.end_date, last_call.response) ]
    /\ UNCHANGED << now, accounts, conc_vars, summary_cache, trend_cache, hist_summary, hist_trend,
                    orch_vars >>

\* The date arguments of a trend: its range [start, end) ends at most on the
\* day after the last date of the model.
TrendDateArgs == { IsoDate(d) : d \in 1..(MaxDate + 1) } \cup { MalformedDate }

\* What describe_instance_bill_by_date comes to for one day: the pretax
\* amounts of the day's items, or a failure.
DayAmountLists == { << >>, << 10 >>, << 10, 10 >>, << 10, -10 >> }
OkDay(amounts) == [ kind |-> "ok", amounts |-> amounts ]
FailDay(kind) == [ kind |-> kind, amounts |-> << >> ]
DayResponses ==
    { OkDay(amounts) : amounts \in DayAmountLists } \cup { FailDay("transport"), FailDay("timeout") }

RECURSIVE SumSeq(_)
SumSeq(amounts) == IF amounts = << >> THEN 0 ELSE Head(amounts) + SumSeq(Tail(amounts))

\* A HashMap hands out its entries in an order of its own: any arrangement of
\* the keys there can be.
Perms(S) ==
    { p \in [ 1..Cardinality(S) -> S ] : \A x \in S : \E i \in 1..Cardinality(S) : p[i] = x }
DateOrders == Perms(ProviderDates)
ServiceOrders == Perms(Services)

\* The keys of a map in the order its iterator yields them.
IterKeys(keys, iter_order) ==
    LET InMap(k) == k \in keys IN SelectSeq(iter_order, InMap)

RECURSIVE SumAmounts(_)
SumAmounts(costs) == IF costs = << >> THEN 0 ELSE Head(costs).amount + SumAmounts(Tail(costs))

\* A list left in the order the map's iterator gave it.
SortByDateAscSkipped(list) == list

\* sort_by(|a, b| a.date.cmp(&b.date)): a stable sort, by date ascending.
RECURSIVE SortByDateAsc(_)
SortByDateAsc(list) ==
    IF list = << >> THEN << >>
    ELSE LET first == CHOOSE i \in 1..Len(list) :
                          /\ \A j \in 1..Len(list) : list[i].date <= list[j].date
                          /\ \A j \in 1..(i - 1) : list[j].date # list[i].date
         IN  << list[first] >>
                 \o SortByDateAsc([ k \in 1..(Len(list) - 1) |->
                                      IF k < first THEN list[k] ELSE list[k + 1] ])

\* sort_by(|a, b| b.amount.partial_cmp(&a.amount)): a stable sort, by amount
\* descending and by nothing else; entries of equal amount keep their order.
RECURSIVE SortByAmountDesc(_)
SortByAmountDesc(list) ==
    IF list = << >> THEN << >>
    ELSE LET first == CHOOSE i \in 1..Len(list) :
                          /\ \A j \in 1..Len(list) : list[i].amount >= list[j].amount
                          /\ \A j \in 1..(i - 1) : list[j].amount # list[i].amount
         IN  << list[first] >>
                 \o SortByAmountDesc([ k \in 1..(Len(list) - 1) |->
                                         IF k < first THEN list[k] ELSE list[k + 1] ])

\* A day loop that ends at the first day whose query fails.
AliyunAfterDayFailureBreak(current, end) == end

\* get_cost_trend, the Err arm of the day's query: a warning, and the loop
\* goes on with current += 1 day.
AliyunAfterDayFailure(current, end) == current + 1

\* get_cost_trend, lines 312-337: while current < end, one query per day; a
\* day is entered into daily_map when its items add up to more than zero.
RECURSIVE AliyunTrendLoop(_, _, _, _, _)
AliyunTrendLoop(current, end, day_responses, daily_map, queried) ==
    IF ~(current < end)
    THEN [ daily_map |-> daily_map, queried |-> queried ]
    ELSE IF day_responses[current].kind = "ok"
    THEN AliyunTrendLoop(current + 1, end, day_responses,
                         IF SumSeq(day_responses[current].amounts) > 0
                         THEN daily_map @@ (current :> SumSeq(day_responses[current].amounts))
                         ELSE daily_map,
                         queried \cup {current})
    ELSE AliyunTrendLoop(AliyunAfterDayFailure(current, end), end, day_responses,
                         daily_map, queried \cup {current})

\* get_cost_trend, lines 339-351: the entries of daily_map, collected as the
\* map yields them and sorted by date.
DailyMapToSortedList(daily_map, iter_order) ==
    LET keys == IterKeys(DOMAIN daily_map, iter_order) IN
    SortByDateAsc([ i \in 1..Len(keys) |-> [ date |-> keys[i], amount |-> daily_map[keys[i]] ] ])

\* AliyunCloudService::get_cost_trend: both dates are parsed first, then the
\* days of [start, end) are queried one by one.
AliyunGetCostTrend(account_id, start_date, end_date, day_responses, iter_order) ==
    IF ~start_date.valid
    THEN [ requests |-> 0, queried |-> {}, ret |-> Err("Invalid start date") ]
    ELSE IF ~end_date.valid
    THEN [ requests |-> 0, queried |-> {}, ret |-> Err("Invalid end date") ]
    ELSE LET done == AliyunTrendLoop(start_date.rank, end_date.rank, day_responses, << >>, {}) IN
         [ requests |-> Cardinality(done.queried),
           queried  |-> done.queried,
           ret      |-> Ok([ account_id  |-> account_id,
                             currency    |-> "CNY",
                             daily_costs |-> DailyMapToSortedList(done.daily_map, iter_order) ]) ]

AliyunTrendInputs ==
    [ fn : {"input"}, method : {"get_cost_trend"}, provider : {"Aliyun"},
      start_date : TrendDateArgs, end_date : TrendDateArgs,
      response : [ Dates -> DayResponses ] ]

\* AliyunCloudService::get_cost_trend(start_date, end_date)
CallAliyunGetCostTrend ==
    /\ last_call.fn = "input"
    /\ last_call.method = "get_cost_trend"
    /\ last_call.provider = "Aliyun"
    /\ \E iter_order \in DateOrders :
           last_call' = [ fn         |-> "get_cost_trend",
                          provider   |-> "Aliyun",
                          start_date |-> last_call.start_date,
                          end_date   |-> last_call.end_date,
                          response   |-> last_call.response,
                          out        |-> AliyunGetCostTrend("a2", last_call.start_date,
                                                            last_call.end_date,
                                                            last_call.response, iter_order) ]
    /\ UNCHANGED << now, accounts, conc_vars, summary_cache, trend_cache, hist_summary, hist_trend,
                    orch_vars >>

\* What Cost Explorer answers to the daily request: periods with a Total.
DailyItems == [ date : ProviderDates, amount : {0, 10} ]
DailyItemLists == UNION { [ 1..n -> DailyItems ] : n \in 0..MaxRecords }
DailyResponses ==
    { OkItems(items) : items \in DailyItemLists } \cup { FailItems(k) : k \in FailureKinds }

\* parse_daily_cost_response: one CostData, of service "Total", per period of
\* the answer that has a Total, whatever its amount.
parse_daily_cost_response(items, account_id) ==
    [ i \in 1..Len(items) |->
        [ account_id |-> account_id, date |-> items[i].date, service |-> "Total",
          amount |-> items[i].amount, currency |-> "USD" ] ]

\* aggregate_daily_costs: the amounts summed per date in a HashMap, the
\* entries collected as the map yields them and sorted by date; the currency
\* is that of the last record, "USD" without one.
aggregate_daily_costs(costs, iter_order) ==
    LET keys == IterKeys({ costs[i].date : i \in 1..Len(costs) }, iter_order)
        OnDate(d) == LET Same(cost) == cost.date = d IN SelectSeq(costs, Same)
    IN  [ daily_costs |-> SortByDateAsc([ i \in 1..Len(keys) |->
                              [ date |-> keys[i], amount |-> SumAmounts(OnDate(keys[i])) ] ]),
          currency    |-> IF costs = << >> THEN "USD" ELSE costs[Len(costs)].currency ]

\* AwsCloudService::get_cost_trend: call_cost_explorer_daily(start_date,
\* end_date), whose answer is aggregated by date. The dates go into the
\* request body as they are.
AwsGetCostTrend(account_id, start_date, end_date, response, iter_order) ==
    [ requests |-> 1,
      queried  |-> {},
      ret      |-> IF response.kind # "ok" THEN Err(response.kind)
                   ELSE LET aggregated == aggregate_daily_costs(
                                parse_daily_cost_response(response.items, account_id),
                                iter_order)
                        IN  Ok([ account_id  |-> account_id,
                                 currency    |-> aggregated.currency,
                                 daily_costs |-> aggregated.daily_costs ]) ]

AwsTrendInputs ==
    [ fn : {"input"}, method : {"get_cost_trend"}, provider : {"AWS"},
      start_date : TrendDateArgs, end_date : TrendDateArgs, response : DailyResponses ]

\* AwsCloudService::get_cost_trend(start_date, end_date)
CallAwsGetCostTrend ==
    /\ last_call.fn = "input"
    /\ last_call.method = "get_cost_trend"
    /\ last_call.provider = "AWS"
    /\ \E iter_order \in DateOrders :
           last_call' = [ fn         |-> "get_cost_trend",
                          provider   |-> "AWS",
                          start_date |-> last_call.start_date,
                          end_date   |-> last_call.end_date,
                          response   |-> last_call.response,
                          out        |-> AwsGetCostTrend("a1", last_call.start_date,
                                                         last_call.end_date,
                                                         last_call.response, iter_order) ]
    /\ UNCHANGED << now, accounts, conc_vars, summary_cache, trend_cache, hist_summary, hist_trend,
                    orch_vars >>

\* The cost records a list handed to an aggregation holds at most.
MaxCosts == 3

\* The records aggregate_costs_by_service and aggregate_daily_costs are
\* handed: what parse_cost_explorer_response made of an answer, so charges
\* above zero, of one account and one currency.
CostAmounts == {10, 20}
CostRecords ==
    [ account_id : {"a1"}, date : Dates, service : Services, amount : CostAmounts,
      currency : {"USD"} ]
CostLists == UNION { [ 1..n -> CostRecords ] : n \in 0..MaxCosts }

\* aggregate_costs_by_service: the amounts summed per service in a HashMap,
\* the entries collected as the map yields them and sorted by amount; the
\* currency of every entry is that of the last record, "USD" without one.
aggregate_costs_by_service(costs, iter_order) ==
    LET keys == IterKeys({ costs[i].service : i \in 1..Len(costs) }, iter_order)
        OfService(s) == LET Same(cost) == cost.service = s IN SelectSeq(costs, Same)
        currency == IF costs = << >> THEN "USD" ELSE costs[Len(costs)].currency
    IN  SortByAmountDesc([ i \in 1..Len(keys) |->
            [ service  |-> keys[i],
              amount   |-> SumAmounts(OfService(keys[i])),
              currency |-> currency ] ])

\* The items of a bill overview: a product name and a pretax amount each.
BillItems == [ product_name : Services, pretax_amount : Amounts ]
BillItemLists == UNION { [ 1..n -> BillItems ] : n \in 0..MaxCosts }

RECURSIVE SumPretax(_)
SumPretax(items) ==
    IF items = << >> THEN 0 ELSE Head(items).pretax_amount + SumPretax(Tail(items))

\* parse_bill_overview: the total of all items, and one ServiceCost for every
\* item with an amount above zero, sorted by amount.
parse_bill_overview(items) ==
    LET Positive(item) == item.pretax_amount > 0
        kept == SelectSeq(items, Positive)
    IN  [ total_cost |-> SumPretax(items),
          details    |-> SortByAmountDesc([ i \in 1..Len(kept) |->
                             [ service  |-> kept[i].product_name,
                               amount   |-> kept[i].pretax_amount,
                               currency |-> "CNY" ] ]) ]

\* An aggregated entry taken as a cost record again.
ServiceCostAsRecord(entry) ==
    [ account_id |-> "a1", date |-> 1, service |-> entry.service,
      amount |-> entry.amount, currency |-> entry.currency ]
DailyCostAsRecord(entry, currency) ==
    [ account_id |-> "a1", date |-> entry.date, service |-> "Total",
      amount |-> entry.amount, currency |-> currency ]

AggregateInputs ==
    [ fn : {"input"}, method : {"aggregate_costs_by_service", "aggregate_daily_costs"},
      costs : CostLists ]
OverviewInputs ==
    [ fn : {"input"}, method : {"parse_bill_overview"}, items : BillItemLists ]

\* aggregate_costs_by_service(&costs)
CallAggregateCostsByService ==
    /\ last_call.fn = "input"
    /\ last_call.method = "aggregate_costs_by_service"
    /\ \E iter_order \in ServiceOrders :
           last_call' = [ fn    |-> "aggregate_costs_by_service",
                          pass  |-> 1,
                          costs |-> last_call.costs,
                          out   |-> aggregate_costs_by_service(last_call.costs, iter_order) ]
    /\ UNCHANGED << now, accounts, conc_vars, summary_cache, trend_cache, hist_summary, hist_trend,
                    orch_vars >>

\* aggregate_costs_by_service on the entries it returned, in a map of its own.
CallAggregateCostsByServiceAgain ==
    /\ last_call.fn = "aggregate_costs_by_service"
    /\ last_call.pass = 1
    /\ \E iter_order \in ServiceOrders :
           LET costs == [ i \in 1..Len(last_call.out) |-> ServiceCostAsRecord(last_call.out[i]) ]
           IN  last_call' = [ fn    |-> "aggregate_costs_by_service",
                              pass  |-> 2,
                              costs |-> costs,
                              out   |-> aggregate_costs_by_service(costs, iter_order) ]
    /\ UNCHANGED << now, accounts, conc_vars, summary_cache, trend_cache, hist_summary, hist_trend,
                    orch_vars >>

\* aggregate_daily_costs(&cost_data)
CallAggregateDailyCosts ==
    /\ last_call.fn = "input"
    /\ last_call.method = "aggregate_daily_costs"
    /\ \E iter_order \in DateOrders :
           last_call' = [ fn    |-> "aggregate_daily_costs",
                          pass  |-> 1,
                          costs |-> last_call.costs,
                          out   |-> aggregate_daily_costs(last_call.costs, iter_order) ]
    /\ UNCHANGED << now, accounts, conc_vars, summary_cache, trend_cache, hist_summary, hist_trend,
                    orch_vars >>

\* aggregate_daily_costs on the entries it returned, in a map of its own.
CallAggregateDailyCostsAgain ==
    /\ last_call.fn = "aggregate_daily_costs"
    /\ last_call.pass = 1
    /\ \E iter_order \in DateOrders :
           LET costs == [ i \in 1..Len(last_call.out.daily_costs) |->
                            DailyCostAsRecord(last_call.out.daily_costs[i],
                                              last_call.out.currency) ]
           IN  last_call' = [ fn    |-> "aggregate_daily_costs",
                              pass  |-> 2,
                              costs |-> costs,
                              out   |-> aggregate_daily_costs(costs, iter_order) ]
    /\ UNCHANGED << now, accounts, conc_vars, summary_cache, trend_cache, hist_summary, hist_trend,
                    orch_vars >>

\* parse_bill_overview(&overview)
CallParseBillOverview ==
    /\ last_call.fn = "input"
    /\ last_call.method = "parse_bill_overview"
    /\ last_call' = [ fn    |-> "parse_bill_overview",
                      items |-> last_call.items,
                      out   |-> parse_bill_overview(last_call.items) ]
    /\ UNCHANGED << now, accounts, conc_vars, summary_cache, trend_cache, hist_summary, hist_trend,
                    orch_vars >>

NextAdapter ==
    \/ \E provider \in Adapters : CallValidateCredentials(provider)
    \/ \E provider \in Adapters : CallGetCostSummary(provider)

\* The adapters under arbitrary answers of the providers.
SpecAdapter == InitCache /\ [][NextAdapter]_vars

\* One call of an adapter's data method or of an aggregation function, on
\* arguments and provider answers drawn at the start.
\* The body of an STS answer as a text of at most MaxTokens pieces: tags and
\* a piece of content.
MaxTokens == 3
XmlTokens == {"<Account>", "</Account>", "<Error>", "123"}
XmlBodies == UNION { [ 1..n -> XmlTokens ] : n \in 0..MaxTokens }

\* str::find: the offset of the first occurrence, if there is one.
Find(xml, token) ==
    IF \E i \in 1..Len(xml) : xml[i] = token
    THEN Some((CHOOSE i \in 1..Len(xml) :
                   /\ xml[i] = token
                   /\ \A j \in 1..(i - 1) : xml[j] # token) - 1)
    ELSE None

\* A slice xml[start..end]: a panic when start lies behind end.
Slice(xml, start, end) ==
    IF start > end \/ end > Len(xml)
    THEN [ panic |-> TRUE, val |-> << >> ]
    ELSE [ panic |-> FALSE, val |-> SubSeq(xml, start + 1, end) ]

\* The closure extract of parse_sts_response: None without the start tag or
\* without the end tag, else the text between the end of the first start tag
\* and the beginning of the first end tag.
extract(xml, start_tag, end_tag) ==
    IF Find(xml, start_tag) = None \/ Find(xml, end_tag) = None
    THEN [ panic |-> FALSE, val |-> None ]
    ELSE LET sliced == Slice(xml, Find(xml, start_tag)[1] + 1, Find(xml, end_tag)[1])
         IN  [ panic |-> sliced.panic, val |-> Some(sliced.val) ]

\* parse_sts_response: an Err for a body with <Error>, else the identity with
\* the fields found, an empty text for a field not found.
parse_sts_response(xml) ==
    IF \E i \in 1..Len(xml) : xml[i] = "<Error>"
    THEN [ panic |-> FALSE, ret |-> Err("AWS STS error") ]
    ELSE LET account == extract(xml, "<Account>", "</Account>") IN
         IF account.panic
         THEN [ panic |-> TRUE, ret |-> Err("panic") ]
         ELSE [ panic |-> FALSE,
                ret   |-> Ok([ account |-> IF account.val = None THEN << >> ELSE account.val[1] ]) ]

\* The lengths in bytes of a start_date handed to get_cost_data.
StartDateLens == {0, 6, 7, 10}

\* AliyunCloudService::get_cost_data, line 237: &start_date[..7] panics on a
\* text shorter than seven bytes.
AliyunBillingCycle(start_date_len) ==
    IF start_date_len < 7 THEN [ panic |-> TRUE, len |-> 0 ] ELSE [ panic |-> FALSE, len |-> 7 ]

ParseInputs ==
    [ fn : {"input"}, method : {"parse_sts_response"}, xml : XmlBodies ]
        \cup [ fn : {"input"}, method : {"billing_cycle"}, start_date_len : StartDateLens ]

\* parse_sts_response(&body)
CallParseStsResponse ==
    /\ last_call.fn = "input"
    /\ last_call.method = "parse_sts_response"
    /\ last_call' = [ fn  |-> "parse_sts_response",
                      xml |-> last_call.xml,
                      out |-> parse_sts_response(last_call.xml) ]
    /\ UNCHANGED << now, accounts, conc_vars, summary_cache, trend_cache, hist_summary, hist_trend,
                    orch_vars >>

\* The first statement of AliyunCloudService::get_cost_data(start_date, ..)
CallAliyunBillingCycle ==
    /\ last_call.fn = "input"
    /\ last_call.method = "billing_cycle"
    /\ last_call' = [ fn             |-> "billing_cycle",
                      start_date_len |-> last_call.start_date_len,
                      out            |-> AliyunBillingCycle(last_call.start_date_len) ]
    /\ UNCHANGED << now, accounts, conc_vars, summary_cache, trend_cache, hist_summary, hist_trend,
                    orch_vars >>

DataInputs ==
    GetCostDataInputs \cup AliyunTrendInputs \cup AwsTrendInputs \cup AggregateInputs
        \cup OverviewInputs \cup ParseInputs

InitData ==
    /\ now = 0
    /\ accounts = CacheAccounts
    /\ summary_cache = [ a \in AccountIds |-> None ]
    /\ trend_cache = [ a \in AccountIds |-> [ d \in Dates |-> None ] ]
    /\ hist_summary = [ a \in AccountIds |-> None ]
    /\ hist_trend = [ a \in AccountIds |-> [ d \in Dates |-> None ] ]
    /\ last_call \in DataInputs
    /\ batch = [ b \in BatchIds |-> IdleBatch ]
    /\ ui = InitialView
    /\ fetched = [ a \in AccountIds |-> None ]
    /\ db_lock = IdleLock
    /\ trend_view = InitialTrendView

NextData ==
    \/ \E provider \in {"AWS", "Aliyun"} : CallGetCostData(provider)
    \/ CallAliyunGetCostTrend
    \/ CallAwsGetCostTrend
    \/ CallAggregateCostsByService
    \/ CallAggregateCostsByServiceAgain
    \/ CallAggregateDailyCosts
    \/ CallAggregateDailyCostsAgain
    \/ CallParseBillOverview
    \/ CallParseStsResponse
    \/ CallAliyunBillingCycle

SpecData == InitData /\ [][NextData]_vars

\* ------------------------------------------------------- request signing

\* The characters a header value is made of, and the values up to a length.
MaxValueLen == 2
MaxHeaders == 2
HeaderChars == {" ", "a"}
HeaderValues == UNION { [ 1..n -> HeaderChars ] : n \in 0..MaxValueLen }
HeaderNames == {"content-type", "X-Amz-Target"}
Headers == [ k : HeaderNames, v : HeaderValues ]
HeaderLists == UNION { [ 1..n -> Headers ] : n \in 0..MaxHeaders }

\* str::to_lowercase on the header names there are.
to_lowercase(k) == IF k = "X-Amz-Target" THEN "x-amz-target" ELSE k

\* The place of a lower-cased header name in the order of the strings.
HeaderRank(k) ==
    CASE k = "content-type" -> 1
      [] k = "host" -> 2
      [] k = "x-amz-content-sha256" -> 3
      [] k = "x-amz-date" -> 4
      [] k = "x-amz-target" -> 5

\* str::trim: the value without the white space at its ends.
RECURSIVE trim_start(_)
trim_start(v) == IF v # << >> /\ Head(v) = " " THEN trim_start(Tail(v)) ELSE v
RECURSIVE trim_end(_)
trim_end(v) ==
    IF v # << >> /\ v[Len(v)] = " " THEN trim_end(SubSeq(v, 1, Len(v) - 1)) ELSE v
trim(v) == trim_end(trim_start(v))

\* SHA-256 and HMAC-SHA256, hex-encoded or as bytes: taken as free of
\* collisions, a digest stands for what was hashed. The digest of a payload
\* goes into a header as text, one text per payload.
sha256_hash(data) == [ sha256 |-> data ]
payload_sha256_hex(payload) == IF payload = "" THEN "sha256()" ELSE "sha256(body)"
hmac_sha256(key, data) == [ hmac_key |-> key, hmac_data |-> data ]

\* all_headers.sort_by(|a, b| a.0.to_lowercase().cmp(&b.0.to_lowercase())):
\* a stable sort by the lower-cased name.
RECURSIVE SortHeaders(_)
SortHeaders(list) ==
    IF list = << >> THEN << >>
    ELSE LET Rank(i) == HeaderRank(to_lowercase(list[i].k))
             first == CHOOSE i \in 1..Len(list) :
                          /\ \A j \in 1..Len(list) : Rank(i) <= Rank(j)
                          /\ \A j \in 1..(i - 1) : Rank(j) # Rank(i)
         IN  << list[first] >>
                 \o SortHeaders([ n \in 1..(Len(list) - 1) |->
                                    IF n < first THEN list[n] ELSE list[n + 1] ])

\* A canonical header line that leaves the value out.
CanonicalHeaderNameOnly(header) == << to_lowercase(header.k), ":", "\n" >>

\* format!("{}:{}\n", k.to_lowercase(), v.trim())
CanonicalHeader(header) == << to_lowercase(header.k), ":" >> \o trim(header.v) \o << "\n" >>

RECURSIVE CanonicalHeaders(_)
CanonicalHeaders(all_headers) ==
    IF all_headers = << >> THEN << >>
    ELSE CanonicalHeader(Head(all_headers)) \o CanonicalHeaders(Tail(all_headers))

\* The lower-cased names, to be joined with ";".
SignedHeaders(all_headers) ==
    [ i \in 1..Len(all_headers) |-> to_lowercase(all_headers[i].k) ]

\* The fixed parts of a request of the adapter, and the account's keys.
AwsSelf == [ access_key_id |-> "AKID", secret_access_key |-> "secret", region |-> "eu-west-1" ]
AwsRegions == {"eu-west-1", "us-east-1"}
AmzDate == "20240101T000000Z"
DateStamp == "20240101"

\* The region a signature of sign_request_with_region is made for, were it
\* the account's.
SigningRegionOfAccount(self, region) == self.region

\* sign_request_with_region: "use the passed region instead of self.region".
SigningRegion(self, region) == region

\* Steps 1 to 4 of a signature, which sign_request and
\* sign_request_with_region spell out alike, for the region each of them puts
\* into the credential scope and into the key. A format! of parts that hold
\* no separator is the list of its parts.
SignatureV4(self, method, service, region, host, uri, query_string, headers, payload) ==
    LET payload_hash == payload_sha256_hex(payload)
        all_headers ==
            SortHeaders(headers \o << [ k |-> "host", v |-> host ],
                                      [ k |-> "x-amz-date", v |-> << AmzDate >> ],
                                      [ k |-> "x-amz-content-sha256", v |-> << payload_hash >> ] >>)
        canonical_request ==
            << method, uri, query_string, CanonicalHeaders(all_headers),
               SignedHeaders(all_headers), payload_hash >>
        credential_scope == << DateStamp, region, service, "aws4_request" >>
        string_to_sign ==
            << "AWS4-HMAC-SHA256", AmzDate, credential_scope, sha256_hash(canonical_request) >>
        k_date == hmac_sha256(<< "AWS4", self.secret_access_key >>, DateStamp)
        k_region == hmac_sha256(k_date, region)
        k_service == hmac_sha256(k_region, service)
        k_signing == hmac_sha256(k_service, "aws4_request")
        signature == hmac_sha256(k_signing, string_to_sign)
    IN  Ok([ credential     |-> << self.access_key_id, credential_scope >>,
             signed_headers |-> SignedHeaders(all_headers),
             signature      |-> signature ])

\* AwsCloudService::sign_request
AwsSignRequest(self, method, service, host, uri, query_string, headers, payload) ==
    SignatureV4(self, method, service, self.region, host, uri, query_string, headers, payload)

\* AwsCloudService::sign_request_with_region
AwsSignRequestWithRegion(self, method, service, region, host, uri, query_string, headers, payload) ==
    SignatureV4(self, method, service, SigningRegion(self, region), host, uri, query_string,
                headers, payload)

\* A request signed, and the same request with the value of one signed header
\* replaced: header `which` of the caller's, or the host when `which` is 0.
AwsSignInputs ==
    { r \in [ fn : {"input"}, method : {"sign_request"}, headers : HeaderLists,
              which : 0..MaxHeaders, value : HeaderValues ] :
          r.which <= Len(r.headers) }

BaseHost == << "a" >>

\* self.sign_request("POST", "sts", host, "/", "", &headers, payload, timestamp),
\* twice, and once more with the one value replaced.
CallAwsSignRequest ==
    /\ last_call.fn = "input"
    /\ last_call.method = "sign_request"
    /\ LET headers == last_call.headers
           which == last_call.which
           replaced == IF which = 0 THEN headers
                       ELSE [ headers EXCEPT ![which].v = last_call.value ]
       IN  last_call' =
               [ fn       |-> "sign_request",
                 headers  |-> headers,
                 which    |-> which,
                 old      |-> IF which = 0 THEN BaseHost ELSE headers[which].v,
                 value    |-> last_call.value,
                 first    |-> AwsSignRequest(AwsSelf, "POST", "sts", BaseHost, "/", "",
                                             headers, "body"),
                 again    |-> AwsSignRequest(AwsSelf, "POST", "sts", BaseHost, "/", "",
                                             headers, "body"),
                 replaced |-> AwsSignRequest(AwsSelf, "POST", "sts",
                                             IF which = 0 THEN last_call.value ELSE BaseHost,
                                             "/", "", replaced, "body") ]
    /\ UNCHANGED << now, accounts, conc_vars, summary_cache, trend_cache, hist_summary, hist_trend,
                    orch_vars >>

AwsSignWithRegionInputs ==
    [ fn : {"input"}, method : {"sign_request_with_region"}, self_region : AwsRegions,
      region : AwsRegions, headers : HeaderLists ]

\* self.sign_request_with_region("POST", "ce", region, host, "/", "", &headers,
\* payload, timestamp), next to self.sign_request of the same request.
CallAwsSignRequestWithRegion ==
    /\ last_call.fn = "input"
    /\ last_call.method = "sign_request_with_region"
    /\ LET self == [ AwsSelf EXCEPT !.region = last_call.self_region ]
       IN  last_call' =
               [ fn          |-> "sign_request_with_region",
                 self_region |-> last_call.self_region,
                 region      |-> last_call.region,
                 headers     |-> last_call.headers,
                 out         |-> AwsSignRequestWithRegion(self, "POST", "ce", last_call.region,
                                                          BaseHost, "/", "", last_call.headers,
                                                          "body"),
                 plain       |-> AwsSignRequest(self, "POST", "ce", BaseHost, "/", "",
                                                last_call.headers, "body") ]
    /\ UNCHANGED << now, accounts, conc_vars, summary_cache, trend_cache, hist_summary, hist_trend,
                    orch_vars >>

\* The parameters the callers of call_bss_api add, each key at most once, and
\* the characters of their values: one unreserved, one reserved.
MaxParams == 2
ExtraKeys == {"BillingCycle", "BillingDate", "Granularity"}
ParamChars == {"a", "="}
ParamValues == UNION { [ 1..n -> ParamChars ] : n \in 0..2 }
ExtraParams == [ k : ExtraKeys, v : ParamValues ]
ExtraParamLists ==
    { l \in UNION { [ 1..n -> ExtraParams ] : n \in 0..MaxParams } :
          \A i, j \in 1..Len(l) : l[i].k = l[j].k => i = j }
SupplyOrders == UNION { Perms(1..n) : n \in 0..MaxParams }

\* The place of a key in the byte-wise order of the strings (Ord of String).
KeyRank(k) ==
    CASE k = "AccessKeyId" -> 1
      [] k = "Action" -> 2
      [] k = "BillingCycle" -> 3
      [] k = "BillingDate" -> 4
      [] k = "Format" -> 5
      [] k = "Granularity" -> 6
      [] k = "SignatureMethod" -> 7
      [] k = "SignatureNonce" -> 8
      [] k = "SignatureVersion" -> 9
      [] k = "Timestamp" -> 10
      [] k = "Version" -> 11

\* percent_encode of one character of a text: the unreserved ones, and the
\* pieces of text made of them, stay; the others become %XX (and the % of an
\* earlier encoding %25).
PercentEncodeChar(c) ==
    CASE c = "=" -> "%3D"
      [] c = "&" -> "%26"
      [] c = ":" -> "%3A"
      [] c = "/" -> "%2F"
      [] c = "%3D" -> "%253D"
      [] c = "%3A" -> "%253A"
      [] OTHER -> c

percent_encode(text) == [ i \in 1..Len(text) |-> PercentEncodeChar(text[i]) ]

\* HMAC-SHA1, Base64-encoded: taken as free of collisions.
hmac_sha1_base64(key, data) == [ hmac_key |-> key, hmac_data |-> data ]

\* BTreeMap::insert on the entries of a map: the value of a key there is
\* replaced, a new key is added.
BTreeInsert(params, k, v) ==
    IF \E i \in 1..Len(params) : params[i].k = k
    THEN [ i \in 1..Len(params) |-> IF params[i].k = k THEN [ k |-> k, v |-> v ] ELSE params[i] ]
    ELSE Append(params, [ k |-> k, v |-> v ])

\* A map that yields its entries in the order they were inserted.
BTreeIterAsInserted(params) == params

\* BTreeMap::iter: the entries in ascending order of the keys.
RECURSIVE BTreeIter(_)
BTreeIter(params) ==
    IF params = << >> THEN << >>
    ELSE LET first == CHOOSE i \in 1..Len(params) :
                          \A j \in 1..Len(params) : KeyRank(params[i].k) <= KeyRank(params[j].k)
         IN  << params[first] >>
                 \o BTreeIter([ n \in 1..(Len(params) - 1) |->
                                  IF n < first THEN params[n] ELSE params[n + 1] ])

\* The "k=v" pieces of the canonical query, joined with "&".
RECURSIVE JoinQuery(_)
JoinQuery(entries) ==
    IF entries = << >> THEN << >>
    ELSE percent_encode(<< Head(entries).k >>) \o << "=" >> \o percent_encode(Head(entries).v)
             \o (IF Len(entries) > 1 THEN << "&" >> ELSE << >>)
             \o JoinQuery(Tail(entries))

\* AliyunCloudService::sign_request(&params)
AliyunSignRequest(access_key_secret, params) ==
    LET canonical_query == JoinQuery(BTreeIter(params))
        string_to_sign ==
            << "GET", "&" >> \o percent_encode(<< "/" >>) \o << "&" >>
                \o percent_encode(canonical_query)
    IN  hmac_sha1_base64(<< access_key_secret, "&" >>, string_to_sign)

\* common_params(action), with the time and the nonce of one call.
common_params(action) ==
    << [ k |-> "Format", v |-> << "JSON" >> ],
       [ k |-> "Version", v |-> << "2017-12-14" >> ],
       [ k |-> "AccessKeyId", v |-> << "AKID" >> ],
       [ k |-> "SignatureMethod", v |-> << "HMAC-SHA1" >> ],
       [ k |-> "Timestamp", v |-> << "2024-01-01T00", ":", "00", ":", "00Z" >> ],
       [ k |-> "SignatureVersion", v |-> << "1.0" >> ],
       [ k |-> "SignatureNonce", v |-> << "nonce" >> ],
       [ k |-> "Action", v |-> << action >> ] >>

\* call_bss_api, lines 108-112: the common parameters, then the caller's.
RECURSIVE InsertAll(_, _)
InsertAll(params, extra_params) ==
    IF extra_params = << >> THEN params
    ELSE InsertAll(BTreeInsert(params, Head(extra_params).k, Head(extra_params).v),
                   Tail(extra_params))

AliyunSignInputs ==
    { r \in [ fn : {"input"}, method : {"aliyun_sign_request"},
              extra_params : ExtraParamLists, order : SupplyOrders ] :
          Len(r.order) = Len(r.extra_params) }

\* call_bss_api up to its signature, for the caller's parameters as supplied
\* and for the same parameters supplied in another order, at one time and
\* with one nonce.
CallAliyunSignRequest ==
    /\ last_call.fn = "input"
    /\ last_call.method = "aliyun_sign_request"
    /\ LET extra_params == last_call.extra_params
           reordered == [ i \in 1..Len(extra_params) |-> extra_params[last_call.order[i]] ]
           params == InsertAll(common_params("DescribeInstanceBill"), extra_params)
       IN  last_call' =
               [ fn                |-> "aliyun_sign_request",
                 extra_params      |-> extra_params,
                 reordered         |-> reordered,
                 signed            |-> BTreeIter(params),
                 signature         |-> AliyunSignRequest("secret", params),
                 reordered_signature |->
                     AliyunSignRequest("secret",
                         InsertAll(common_params("DescribeInstanceBill"), reordered)) ]
    /\ UNCHANGED << now, accounts, conc_vars, summary_cache, trend_cache, hist_summary, hist_trend,
                    orch_vars >>

\* ------------------------------------------------- credential encryption

\* Bytes of two bits, nonces of NonceLen bytes and plaintexts of at most
\* MaxPlainLen: a small stand-in for the bytes, the 12-byte nonce and the
\* texts of the program.
NonceLen == 2
MaxPlainLen == 2
ByteValues == 0..3
Keys == {1, 2}
Nonces == [ 1..NonceLen -> ByteValues ]
Plaintexts == UNION { [ 1..n -> ByteValues ] : n \in 0..MaxPlainLen }

\* An authenticated cipher in the place of AES-256-GCM: a key stream from key
\* and nonce added to the text, and a tag over key, nonce and ciphertext.
KeyStream(key, nonce, i) == (key + SumSeq(nonce) + i) % 4
AeadTag(key, nonce, ciphertext) == (key + SumSeq(nonce) + SumSeq(ciphertext) + 1) % 4

\* self.cipher.encrypt(nonce, plaintext)
AeadEncrypt(key, nonce, plaintext) ==
    LET ciphertext == [ i \in 1..Len(plaintext) |->
                          (plaintext[i] + KeyStream(key, nonce, i)) % 4 ]
    IN  ciphertext \o << AeadTag(key, nonce, ciphertext) >>

\* self.cipher.decrypt(nonce, ciphertext): an error for a text without a tag
\* or with another tag than its own.
AeadDecrypt(key, nonce, sealed) ==
    IF sealed = << >> THEN Err("Decryption failed")
    ELSE LET ciphertext == SubSeq(sealed, 1, Len(sealed) - 1) IN
         IF sealed[Len(sealed)] # AeadTag(key, nonce, ciphertext)
         THEN Err("Decryption failed")
         ELSE Ok([ i \in 1..Len(ciphertext) |->
                     (ciphertext[i] + 4 - KeyStream(key, nonce, i)) % 4 ])

\* BASE64: a digit per byte here, and back; no byte for a foreign character.
Base64Digits == << "A", "B", "C", "D" >>
Base64Encode(bytes) == [ i \in 1..Len(bytes) |-> Base64Digits[bytes[i] + 1] ]
Base64Decode(text) ==
    IF \E i \in 1..Len(text) : \A b \in ByteValues : Base64Digits[b + 1] # text[i]
    THEN Err("Invalid symbol")
    ELSE Ok([ i \in 1..Len(text) |-> CHOOSE b \in ByteValues : Base64Digits[b + 1] = text[i] ])

\* A decrypt that takes a nonce of zeros, whatever the text begins with.
NonceOfZeros(combined) == [ i \in 1..NonceLen |-> 0 ]

\* combined.split_at(NONCE_SIZE).0
NonceOf(combined) == SubSeq(combined, 1, NonceLen)

\* CryptoManager::encrypt with the nonce OsRng filled in.
encrypt(key, nonce_bytes, plaintext) ==
    Ok(Base64Encode(nonce_bytes \o AeadEncrypt(key, nonce_bytes, plaintext)))

\* CryptoManager::decrypt
decrypt(key, encrypted) ==
    LET combined == Base64Decode(encrypted) IN
    IF ~combined.ok THEN combined
    ELSE IF Len(combined.val) < NonceLen THEN Err("Invalid encrypted data")
    ELSE AeadDecrypt(key, NonceOf(combined.val),
                     SubSeq(combined.val, NonceLen + 1, Len(combined.val)))

CryptoInputs == [ fn : {"input"}, method : {"encrypt"}, key : Keys, plaintext : Plaintexts ]

\* manager.encrypt(plaintext)
CallEncrypt ==
    /\ last_call.fn = "input"
    /\ last_call.method = "encrypt"
    /\ \E nonce_bytes \in Nonces :
           last_call' = [ fn        |-> "encrypt",
                          key       |-> last_call.key,
                          plaintext |-> last_call.plaintext,
                          nonce     |-> nonce_bytes,
                          encrypted |-> encrypt(last_call.key, nonce_bytes, last_call.plaintext) ]
    /\ UNCHANGED << now, accounts, conc_vars, summary_cache, trend_cache, hist_summary, hist_trend,
                    orch_vars >>

\* manager.decrypt(&encrypted), of the same manager
CallDecrypt ==
    /\ last_call.fn = "encrypt"
    /\ last_call.encrypted.ok
    /\ last_call' = [ fn        |-> "decrypt",
                      key       |-> last_call.key,
                      plaintext |-> last_call.plaintext,
                      nonce     |-> last_call.nonce,
                      encrypted |-> last_call.encrypted,
                      decrypted |-> decrypt(last_call.key, last_call.encrypted.val) ]
    /\ UNCHANGED << now, accounts, conc_vars, summary_cache, trend_cache, hist_summary, hist_trend,
                    orch_vars >>

SignInputs ==
    AwsSignInputs \cup AwsSignWithRegionInputs \cup AliyunSignInputs \cup CryptoInputs

InitSign ==
    /\ now = 0
    /\ accounts = CacheAccounts
    /\ summary_cache = [ a \in AccountIds |-> None ]
    /\ trend_cache = [ a \in AccountIds |-> [ d \in Dates |-> None ] ]
    /\ hist_summary = [ a \in AccountIds |-> None ]
    /\ hist_trend = [ a \in AccountIds |-> [ d \in Dates |-> None ] ]
    /\ last_call \in SignInputs
    /\ batch = [ b \in BatchIds |-> IdleBatch ]
    /\ ui = InitialView
    /\ fetched = [ a \in AccountIds |-> None ]
    /\ db_lock = IdleLock
    /\ trend_view = InitialTrendView

NextSign ==
    \/ CallAwsSignRequest
    \/ CallAwsSignRequestWithRegion
    \/ CallAliyunSignRequest
    \/ CallEncrypt
    \/ CallDecrypt

SpecSign == InitSign /\ [][NextSign]_vars

\* ------------------------------------------------ db.rs: the connection lock

\* The calls into db.rs one thread makes before it ends.
MaxDbCalls == 2

\* The functions of db.rs each thread calls: the refresh worker reads the
\* accounts and the summary cache, the trend worker reads and writes the
\* trend cache, the UI thread clears the cache and looks an account up.
ThreadFns(t) ==
    CASE t = "refresh" -> {"get_all_accounts", "get_cached_cost_summary_with_account"}
      [] t = "trend"   -> {"get_cached_cost_trend", "save_cost_trend_cache"}
      [] OTHER         -> {"clear_all_cache", "get_all_accounts"}

\* The functions of db.rs the threads call.
DbFns == UNION { ThreadFns(t) : t \in DbThreads }

\* Mutex::lock on a mutex that is always free.
MutexLockAlways(guard, t) == TRUE

\* DB_CONNECTION.lock(): returns once no thread holds the guard.
MutexLock(guard, t) == guard = None

\* The account's name and provider looked up under the guard.
AccountLookupUnderGuard(fn) ==
    IF fn = "get_cached_cost_summary_with_account"
    THEN << "lock", "stmt", "unlock" >>
    ELSE << >>

\* get_cached_cost_summary_with_account takes account_name and provider
\* from its caller: no function of db.rs is called inside the body.
AccountLookup(fn) == << >>

\* n copies of one step.
Repeat(step, n) == [ i \in 1..n |-> step ]

\* The steps of a function of db.rs: get_connection() at the top, the SQL
\* statements, and the guard dropped at the return.  save_cost_trend_cache
\* runs one INSERT OR REPLACE per day; clear_all_cache deletes from
\* cost_summary_cache, then from cost_trend_cache.
DbProgram(fn) ==
    CASE fn = "get_all_accounts" -> << "lock", "stmt", "unlock" >>
      [] fn = "get_cached_cost_summary_with_account" ->
            << "lock" >> \o AccountLookup(fn) \o << "stmt", "unlock" >>
      [] fn = "get_cached_cost_trend" -> << "lock", "select", "unlock" >>
      [] fn = "save_cost_trend_cache" ->
            << "lock" >> \o Repeat("insert", MaxDate) \o << "unlock" >>
      [] fn = "clear_all_cache" -> << "lock", "stmt", "delete", "unlock" >>
      [] OTHER -> << >>

\* The step a thread is about to execute.
DbStep(t) ==
    LET th == db_lock.th[t]
    IN  IF th.fn = "none" THEN "none" ELSE DbProgram(th.fn)[th.ip]

\* A thread between its get_connection() and its return.
InBody(t) == db_lock.th[t].fn # "none" /\ db_lock.th[t].ip > 1

\* A thread enters a function of db.rs.
DbCall(t, fn) ==
    /\ db_lock.th[t].fn = "none"
    /\ db_lock.th[t].calls < MaxDbCalls
    /\ fn \in ThreadFns(t)
    /\ db_lock' = [ db_lock EXCEPT !.th[t].fn = fn, !.th[t].ip = 1 ]
    /\ UNCHANGED << now, accounts, cache_vars, orch_vars, trend_view >>

\* get_connection: the thread takes the guard; save_cost_trend_cache then
\* fixes the cached_at of all its rows.
GetConnection(t) ==
    /\ DbStep(t) = "lock"
    /\ MutexLock(db_lock.guard, t)
    /\ LET saving == db_lock.th[t].fn = "save_cost_trend_cache"
           count  == IF saving THEN db_lock.writes + 1 ELSE db_lock.writes
       IN  db_lock' = [ db_lock EXCEPT
                !.guard = Some(t),
                !.writes = count,
                !.th[t].ip = @ + 1,
                !.th[t].stamp = IF saving THEN count ELSE @ ]
    /\ UNCHANGED << now, accounts, cache_vars, orch_vars, trend_view >>

\* One SQL statement on the connection.
DbStatement(t) ==
    /\ DbStep(t) \in {"stmt", "select", "insert", "delete"}
    /\ LET th   == db_lock.th[t]
           step == DbStep(t)
           rows == CASE step = "insert" ->
                          [ db_lock.rows EXCEPT ![th.ip - 1] = th.stamp ]
                     [] step = "delete" -> [ d \in Dates |-> 0 ]
                     [] OTHER -> db_lock.rows
       IN  db_lock' = [ db_lock EXCEPT
                !.rows = rows,
                !.th[t].ip = @ + 1,
                !.th[t].seen = IF step = "select" THEN Some(db_lock.rows) ELSE @ ]
    /\ UNCHANGED << now, accounts, cache_vars, orch_vars, trend_view >>

\* The function returns and its guard is dropped.
DbReturn(t) ==
    /\ DbStep(t) = "unlock"
    /\ db_lock' = [ db_lock EXCEPT
            !.guard = None,
            !.th[t].fn = "none",
            !.th[t].ip = 0,
            !.th[t].calls = @ + 1 ]
    /\ UNCHANGED << now, accounts, cache_vars, orch_vars, trend_view >>

InitLock ==
    /\ now = 0
    /\ accounts = CacheAccounts
    /\ summary_cache = [ a \in AccountIds |-> None ]
    /\ trend_cache = [ a \in AccountIds |-> [ d \in Dates |-> None ] ]
    /\ hist_summary = [ a \in AccountIds |-> None ]
    /\ hist_trend = [ a \in AccountIds |-> [ d \in Dates |-> None ] ]
    /\ last_call = [ fn |-> "lock" ]
    /\ batch = [ b \in BatchIds |-> IdleBatch ]
    /\ ui = InitialView
    /\ fetched = [ a \in AccountIds |-> None ]
    /\ db_lock = IdleLock
    /\ trend_view = InitialTrendView

NextLock ==
    \/ \E t \in DbThreads, fn \in DbFns : DbCall(t, fn)
    \/ \E t \in DbThreads : GetConnection(t)
    \/ \E t \in DbThreads : DbStatement(t)
    \/ \E t \in DbThreads : DbReturn(t)

SpecLock == InitLock /\ [][NextLock]_vars

\* The threads are scheduled and make finitely many calls: a thread that
\* can go on does.
LiveSpecLock ==
    /\ SpecLock
    /\ \A t \in DbThreads :
        /\ WF_vars(GetConnection(t))
        /\ WF_vars(DbStatement(t))
        /\ WF_vars(DbReturn(t))

\* ------------------------------------------ dashboard.rs: the trend loading

\* The trend loads started in one run.
MaxLoads == 3

\* rx.recv_timeout(Duration::from_secs(30)) of load_cost_trend
TREND_TIMEOUT_SECS == 30

\* The seconds one billing request of get_cost_trend takes: an answer at
\* once, or the request timeout.
TrendRequestSecs == {0, FETCH_TIMEOUT_SECS}

\* The billing requests get_cost_trend makes: one Cost Explorer request for
\* AWS, one QueryAccountBill request per day for Aliyun.
TrendRequests(provider) == IF provider = "Aliyun" THEN MaxDate ELSE 1

\* The waiting task of load_cost_trend: loading_trends.insert(id, false),
\* whatever the result.
LoadingAfterTimeout(loading, account_id) == [ loading EXCEPT ![account_id] = FALSE ]

\* A trend load just started by load_cost_trend: its worker thread, its
\* channel and its waiting task.
NewLoad(account) ==
    [ account  |-> account,
      worker   |-> "cache",    \* cache, fetch, done
      requests |-> 0,          \* billing requests answered so far
      days     |-> << >>,      \* the daily costs collected so far
      elapsed  |-> 0,          \* seconds the worker has run
      chan     |-> None,       \* the message in the mpsc channel
      recv     |-> "waiting" ] \* waiting, ok, err, timeout

\* The worker threads of trend loads that have not returned yet.
RunningLoads(account_id) ==
    { l \in 1..Len(trend_view.loads) :
        /\ trend_view.loads[l].account.id = account_id
        /\ trend_view.loads[l].worker # "done" }

\* A click on an account card: toggle_account_expand, with load_cost_trend
\* when the card opens and the view has neither the trend nor a load of it.
\* load_cost_trend looks the account up and gives up when it is not found.
ToggleAccountExpand(account_id) ==
    /\ IF trend_view.expanded_account = Some(account_id)
       THEN trend_view' = [ trend_view EXCEPT !.expanded_account = None ]
       ELSE IF account_id \notin trend_view.cost_trends
                 /\ ~trend_view.loading_trends[account_id]
            THEN /\ Len(trend_view.loads) < MaxLoads
                 /\ \E found \in BOOLEAN :
                      trend_view' =
                        IF found
                        THEN [ trend_view EXCEPT
                                 !.expanded_account = Some(account_id),
                                 !.loading_trends[account_id] = TRUE,
                                 !.loads = Append(@, NewLoad(Account(account_id))) ]
                        ELSE [ trend_view EXCEPT
                                 !.expanded_account = Some(account_id),
                                 !.loading_trends[account_id] = FALSE ]
            ELSE trend_view' = [ trend_view EXCEPT !.expanded_account = Some(account_id) ]
    /\ UNCHANGED << now, accounts, db_lock, cache_vars, orch_vars >>

\* Worker thread: get_cached_cost_trend for the past days.  A hit is sent
\* and the thread returns; a miss goes to the account's adapter, or to the
\* `_` arm when there is none.
TrendWorkerCache(l) ==
    /\ l \in 1..Len(trend_view.loads)
    /\ trend_view.loads[l].worker = "cache"
    /\ LET load   == trend_view.loads[l]
           cached == get_cached_cost_trend(trend_cache, now, load.account.id, 1, MaxDate + 1)
       IN  trend_view' = [ trend_view EXCEPT !.loads[l] =
               IF cached # None
               THEN [ @ EXCEPT !.worker = "done",
                               !.chan = TrySend(load.recv, Ok(cached[1])) ]
               ELSE IF HasAdapter(load.account.provider)
               THEN [ @ EXCEPT !.worker = "fetch" ]
               ELSE [ @ EXCEPT !.worker = "done",
                               !.chan = TrySend(load.recv,
                                                Err("This cloud provider is not supported")) ] ]
    /\ UNCHANGED << now, accounts, db_lock, cache_vars, orch_vars >>

\* Worker thread: one billing request of service.get_cost_trend() is
\* answered or fails.  A failed day of Aliyun is skipped, a failed AWS
\* request is the error of the call.  After the last request an Ok trend is
\* saved with save_cost_trend_cache and sent; once recv_timeout has given up
\* the send fails and is ignored.
TrendWorkerRequest(l) ==
    /\ l \in 1..Len(trend_view.loads)
    /\ trend_view.loads[l].worker = "fetch"
    /\ \E secs \in TrendRequestSecs, answered \in BOOLEAN :
        LET load   == trend_view.loads[l]
            date   == load.requests + 1
            days   == IF answered
                      THEN Append(load.days, [ date |-> date, amount |-> 10 ])
                      ELSE load.days
            last   == date >= TrendRequests(load.account.provider)
            failed == load.account.provider = "AWS" /\ ~answered
            trend  == [ account_id  |-> load.account.id,
                        currency    |-> CurrencyOf(load.account.provider),
                        daily_costs |-> days ]
            result == IF failed THEN Err("Failed to get trend data") ELSE Ok(trend)
        IN  /\ (secs = FETCH_TIMEOUT_SECS) => ~answered
            /\ trend_view' = [ trend_view EXCEPT !.loads[l] =
                 IF last
                 THEN [ @ EXCEPT !.worker = "done",
                                 !.requests = date,
                                 !.days = days,
                                 !.elapsed = @ + secs,
                                 !.chan = IF load.recv = "waiting"
                                             /\ load.elapsed + secs > TREND_TIMEOUT_SECS
                                          THEN None
                                          ELSE TrySend(load.recv, result) ]
                 ELSE [ @ EXCEPT !.requests = date,
                                 !.days = days,
                                 !.elapsed = @ + secs ] ]
            /\ IF last /\ ~failed
               THEN /\ trend_cache' = save_cost_trend_cache(trend_cache, now, trend)
                    /\ hist_trend' = [ hist_trend EXCEPT ![load.account.id] =
                         [ d \in Dates |->
                             IF d \in TrendDates(days)
                             THEN Some([ amount |-> 10, at |-> now ])
                             ELSE hist_trend[load.account.id][d] ] ]
               ELSE UNCHANGED << trend_cache, hist_trend >>
    /\ UNCHANGED << now, accounts, db_lock, summary_cache, hist_summary, last_call, orch_vars >>

\* Waiting task: recv_timeout returns the worker's message; loading_trends
\* is reset and an Ok trend is put into cost_trends.
TrendWaiterReceive(l) ==
    /\ l \in 1..Len(trend_view.loads)
    /\ trend_view.loads[l].recv = "waiting"
    /\ trend_view.loads[l].chan # None
    /\ LET load   == trend_view.loads[l]
           result == load.chan[1]
       IN  trend_view' = [ trend_view EXCEPT
               !.loads[l].recv = IF result.ok THEN "ok" ELSE "err",
               !.loading_trends[load.account.id] = FALSE,
               !.cost_trends = IF result.ok THEN @ \cup {load.account.id} ELSE @ ]
    /\ UNCHANGED << now, accounts, db_lock, cache_vars, orch_vars >>

\* Waiting task: recv_timeout gives up after TREND_TIMEOUT_SECS without a
\* message; loading_trends is reset and the error is logged.
TrendWaiterTimeout(l) ==
    /\ l \in 1..Len(trend_view.loads)
    /\ trend_view.loads[l].recv = "waiting"
    /\ trend_view.loads[l].chan = None
    /\ trend_view.loads[l].elapsed >= TREND_TIMEOUT_SECS
    /\ trend_view' = [ trend_view EXCEPT
            !.loads[l].recv = "timeout",
            !.loading_trends =
                LoadingAfterTimeout(@, trend_view.loads[l].account.id) ]
    /\ UNCHANGED << now, accounts, db_lock, cache_vars, orch_vars >>

InitTrend ==
    /\ now = 0
    /\ accounts = CacheAccounts
    /\ summary_cache = [ a \in AccountIds |-> None ]
    /\ trend_cache = [ a \in AccountIds |-> [ d \in Dates |-> None ] ]
    /\ hist_summary = [ a \in AccountIds |-> None ]
    /\ hist_trend = [ a \in AccountIds |-> [ d \in Dates |-> None ] ]
    /\ last_call = NoCall
    /\ batch = [ b \in BatchIds |-> IdleBatch ]
    /\ ui = InitialView
    /\ fetched = [ a \in AccountIds |-> None ]
    /\ db_lock = IdleLock
    /\ trend_view = InitialTrendView

NextTrend ==
    \/ \E a \in AccountIds : ToggleAccountExpand(a)
    \/ ForceRefresh
    \/ \E l \in 1..MaxLoads : TrendWorkerCache(l)
    \/ \E l \in 1..MaxLoads : TrendWorkerRequest(l)
    \/ \E l \in 1..MaxLoads : TrendWaiterReceive(l)
    \/ \E l \in 1..MaxLoads : TrendWaiterTimeout(l)

\* The account cards of the dashboard: clicks, trend workers and their
\* waiting tasks.
SpecTrend == InitTrend /\ [][NextTrend]_vars

\* ----------------------------------------------------- claims on the cache

LookupSummary(a) ==
    get_cached_cost_summary_with_account(summary_cache, now, a,
                                         Account(a).name, Account(a).provider)
LookupTrend(a, start_date, end_date) ==
    get_cached_cost_trend(trend_cache, now, a, start_date, end_date)
Ranges == { r \in Dates \X (1..(MaxDate + 1)) : r[1] < r[2] }

\* C1: a summary put for an account at time t and not invalidated since is
\* returned by a lookup at any time up to and including t + 6 hours, and a
\* lookup later than t + 6 hours returns None.
C1_PutGetWithinTtl ==
    \A a \in AccountIds :
        hist_summary[a] # None =>
            IF now - hist_summary[a][1].at <= CACHE_TTL_HOURS
            THEN LookupSummary(a) = Some(hist_summary[a][1].summary)
            ELSE LookupSummary(a) = None

\* One account's summary is exactly 6 hours old and has just been looked up
\* and returned, the other account's is older and is no longer returned.
C1_Witness ==
    /\ last_call.fn = "get_cached_cost_summary_with_account"
    /\ hist_summary[last_call.account_id] # None
    /\ now - hist_summary[last_call.account_id][1].at = CACHE_TTL_HOURS
    /\ last_call.ret = Some(hist_summary[last_call.account_id][1].summary)
    /\ \E b \in AccountIds :
           /\ hist_summary[b] # None
           /\ now - hist_summary[b][1].at > CACHE_TTL_HOURS
           /\ LookupSummary(b) = None

\* C2: once the cache is cleared, the lookup of an account's summary returns
\* None until a summary is put for the account again, and the lookup of a trend
\* range returns None until a trend with a date of the range is put again,
\* whatever the time.
C2_ClearedIsAbsent ==
    \A a \in AccountIds :
        /\ hist_summary[a] = None => LookupSummary(a) = None
        /\ \A r \in Ranges :
               (\A d \in Dates : (r[1] <= d /\ d < r[2]) => hist_trend[a][d] = None)
                   => LookupTrend(a, r[1], r[2]) = None

\* clear_all_cache has just removed the summaries and trends of every account.
C2_Witness ==
    /\ last_call.fn = "clear_all_cache"
    /\ last_call.dropped = AccountIds
    /\ \A a \in AccountIds : LookupSummary(a) = None
    /\ \A a \in AccountIds : \A r \in Ranges : LookupTrend(a, r[1], r[2]) = None

\* C4 as claimed: a trend lookup that returns a trend has a row, not older
\* than the TTL, for every date of the requested range.
C4_HitNeedsEveryDate ==
    \A a \in AccountIds : \A r \in Ranges :
        LookupTrend(a, r[1], r[2]) # None =>
            \A d \in Dates : (r[1] <= d /\ d < r[2]) =>
                /\ trend_cache[a][d] # None
                /\ now - trend_cache[a][d][1].cached_at <= CACHE_TTL_HOURS

\* The dates of the range put for the account since the last invalidation.
PutDates(a, r) ==
    { d \in Dates : r[1] <= d /\ d < r[2] /\ hist_trend[a][d] # None }

\* C4 as amended: a trend lookup returns a trend exactly when at least one date
\* of the range [start, end) has been put and none of the dates put is older
\* than the TTL; the trend then holds the dates put, in ascending order, and
\* the dates of the range never put are missing from it.  One expired date
\* makes the whole lookup a miss.
C4_HitIffNoneExpired ==
    \A a \in AccountIds : \A r \in Ranges :
        IF \/ PutDates(a, r) = {}
           \/ \E d \in PutDates(a, r) : now - hist_trend[a][d][1].at > CACHE_TTL_HOURS
        THEN LookupTrend(a, r[1], r[2]) = None
        ELSE /\ LookupTrend(a, r[1], r[2]) # None
             /\ LookupTrend(a, r[1], r[2])[1].daily_costs =
                    [ i \in 1..Cardinality(PutDates(a, r)) |->
                        [ date   |-> SortedSeq(PutDates(a, r))[i],
                          amount |-> hist_trend[a][SortedSeq(PutDates(a, r))[i]][1].amount ] ]

\* A lookup has just returned a trend with fewer days than its range, and in
\* the other account one expired day hides a day that is still fresh.
C4_Witness ==
    /\ last_call.fn = "get_cached_cost_trend"
    /\ last_call.ret # None
    /\ Len(last_call.ret[1].daily_costs) < last_call.end_date - last_call.start_date
    /\ \E b \in AccountIds : \E d1, d2 \in Dates :
           /\ hist_trend[b][d1] # None
           /\ hist_trend[b][d2] # None
           /\ now - hist_trend[b][d1][1].at > CACHE_TTL_HOURS
           /\ now - hist_trend[b][d2][1].at <= CACHE_TTL_HOURS
           /\ LookupTrend(b, 1, MaxDate + 1) = None

\* C8 as claimed: after a put, lookups reflect only that put.  A fresh summary
\* is the one put last, and once a trend is put for an account, every row a
\* lookup of that account returns is a date of that trend and carries the
\* cached_at of that put.
C8_PutOverwrites ==
    /\ \A a \in AccountIds :
           (hist_summary[a] # None /\ LookupSummary(a) # None)
               => LookupSummary(a) = Some(hist_summary[a][1].summary)
    /\ last_call.fn = "save_cost_trend_cache" =>
           \A r \in Ranges :
               LET got == LookupTrend(last_call.account_id, r[1], r[2]) IN
               got # None =>
                   \A i \in 1..Len(got[1].daily_costs) :
                       /\ got[1].daily_costs[i].date \in last_call.dates
                       /\ trend_cache[last_call.account_id][got[1].daily_costs[i].date][1].cached_at
                              = last_call.at

\* ------------------------------------------------- claims on the refresh

\* The accounts with an entry of one of the given kinds in the refresh's log.
Logged(b, srcs) ==
    { batch[b].log[i].account_id :
        i \in { j \in 1..Len(batch[b].log) : batch[b].log[j].src \in srcs } }
SummaryIds(list) == { list[i].account_id : i \in 1..Len(list) }
EnabledIds == { accounts[i].id : i \in { j \in 1..Len(accounts) : accounts[j].enabled } }

\* C3: a refresh that loaded the accounts sends a successful result, whatever
\* the adapters did: by then every enabled account has been processed, also
\* those behind an account whose adapter failed, and the result holds exactly
\* one summary for each account served from the cache or by its adapter, none
\* for an account whose adapter failed.
C3_PartialFailure ==
    \A b \in BatchIds :
        (batch[b].sent # None /\ batch[b].idx > 0) =>
            /\ batch[b].sent[1].ok
            /\ Logged(b, {"cache", "api", "failed", "unsupported"}) = EnabledIds
            /\ SummaryIds(batch[b].sent[1].val) = Logged(b, {"cache", "api"})
            /\ Len(batch[b].sent[1].val) = Cardinality(Logged(b, {"cache", "api"}))
            /\ SummaryIds(batch[b].sent[1].val) \cap Logged(b, {"failed"}) = {}

\* The first account's adapter failed with a transport error, the second
\* account was still fetched, and the view shows that one summary, no error.
C3_Witness ==
    \E b \in BatchIds :
        /\ batch[b].recv = "ok"
        /\ Len(batch[b].log) = 2
        /\ batch[b].log[1].src = "failed"
        /\ ~batch[b].log[1].timed_out
        /\ batch[b].log[2].src = "api"
        /\ SummaryIds(batch[b].sent[1].val) = { batch[b].log[2].account_id }
        /\ ui.summaries = batch[b].sent[1].val
        /\ ui.error = None

C11_UnsupportedSkipped ==
    \A n \in 1..Len(accounts) :
        accounts[n].provider \notin {"AWS", "Aliyun"} =>
            /\ summary_cache[accounts[n].id] = None
            /\ \A b \in BatchIds :
                   /\ accounts[n].id \notin Logged(b, {"pending", "api", "failed", "cache"})
                   /\ accounts[n].id \notin SummaryIds(batch[b].summaries)
                   /\ (batch[b].sent # None /\ batch[b].idx > 0) => batch[b].sent[1].ok

\* C12: once the task waiting for a refresh has given up, the worker thread
\* of that refresh is not stopped: while it is not done it can take its next
\* step, and when it is done it has processed every enabled account and
\* handed its result to tx.send, which left nothing in the channel.
C12_AbandonedBatch ==
    \A b \in BatchIds :
        batch[b].recv = "timeout" =>
            /\ batch[b].pc # "done" =>
                   ENABLED (WorkerLoad(b) \/ WorkerLoop(b) \/ WorkerFetch(b) \/ WorkerSend(b))
            /\ batch[b].pc = "done" =>
                   /\ batch[b].sent # None
                   /\ batch[b].sent[1].ok
                   /\ batch[b].chan = None
                   /\ Logged(b, {"cache", "api", "failed", "unsupported"}) = EnabledIds

\* The view shows the timeout of a refresh whose worker went on, fetched and
\* saved a summary after the timeout, and has ended with a send into the
\* closed channel.
C12_Witness ==
    \E b \in BatchIds :
        /\ batch[b].recv = "timeout"
        /\ batch[b].pc = "done"
        /\ batch[b].sent # None
        /\ Len(batch[b].sent[1].val) = 1
        /\ Logged(b, {"api"}) # {}
        /\ \A a \in Logged(b, {"api"}) : summary_cache[a] # None
        /\ batch[b].chan = None
        /\ ui.error = Some("Data retrieval timeout")
        /\ ~ui.loading

\* C7 as claimed: a refresh in which the fetch of exactly one account ran
\* into its request timeout still ends with a successful result in the view's
\* hands, holding the summaries of all accounts that did not fail.
C7_TimeoutIsolated ==
    \A b \in BatchIds :
        ( /\ batch[b].recv \notin {"idle", "waiting"}
          /\ Cardinality({ i \in 1..Len(batch[b].log) : batch[b].log[i].timed_out }) = 1 )
            => /\ batch[b].recv = "ok"
               /\ SummaryIds(batch[b].chan[1].val) = Logged(b, {"cache", "api"})

\* ------------------------------------------------ claims on the adapters

\* C9 as claimed: validate_credentials of every adapter answers Ok(false) when
\* its request fails in transport or is rejected for its credentials.
C9_ValidateNeverErrs ==
    ( /\ last_call.fn = "validate_credentials"
      /\ last_call.response.kind \in {"transport", "auth"} )
        => last_call.ret = Ok(FALSE)

\* C10 as claimed: the change every adapter's get_cost_summary reports is
\* (current - last) / last * 100 when last > 0, 100 when last = 0 and
\* current > 0, and 0 when both are 0.
C10_MonthOverMonth ==
    ( /\ last_call.fn = "get_cost_summary"
      /\ last_call.ret.ok )
        => LET summary == last_call.ret.val IN
           summary.month_over_month_change =
               IF summary.last_month_cost > 0
               THEN Pct(summary.current_month_cost, summary.last_month_cost)
               ELSE IF summary.current_month_cost > 0 THEN 100 ELSE 0

\* ------------------------------------- claims on cost records and trends

\* C13 as claimed: every record get_cost_data(start, end) returns is dated
\* within start <= date <= end, whatever the provider answered.
C13_WindowFiltered ==
    ( /\ last_call.fn = "get_cost_data"
      /\ last_call.start_date.valid
      /\ last_call.end_date.valid
      /\ last_call.out.ret.ok )
        => \A i \in 1..Len(last_call.out.ret.val) :
               /\ last_call.start_date.rank <= last_call.out.ret.val[i].date
               /\ last_call.out.ret.val[i].date <= last_call.end_date.rank

\* C14: a trend fetch of the Aliyun adapter over a well-formed range queries
\* every day of [start, end), also the days after a day whose query failed,
\* and returns Ok with one entry, in date order, for each day whose query was
\* answered with items adding up to more than zero, the amount being that sum.
C14_DayFailureIsolated ==
    ( /\ last_call.fn = "get_cost_trend"
      /\ last_call.provider = "Aliyun"
      /\ last_call.start_date.valid
      /\ last_call.end_date.valid )
        => LET days == { d \in Dates : last_call.start_date.rank <= d /\ d < last_call.end_date.rank }
               good == { d \in days : /\ last_call.response[d].kind = "ok"
                                      /\ SumSeq(last_call.response[d].amounts) > 0 }
           IN  /\ last_call.out.ret.ok
               /\ last_call.out.queried = days
               /\ last_call.out.ret.val.daily_costs =
                      [ i \in 1..Cardinality(good) |->
                          [ date   |-> SortedSeq(good)[i],
                            amount |-> SumSeq(last_call.response[SortedSeq(good)[i]].amounts) ] ]

\* The query of the first day of a two-day range failed, the second day was
\* still queried, and the trend returned holds the second day alone.
C14_Witness ==
    /\ last_call.fn = "get_cost_trend"
    /\ last_call.provider = "Aliyun"
    /\ last_call.start_date = IsoDate(1)
    /\ last_call.end_date = IsoDate(3)
    /\ last_call.response[1].kind = "transport"
    /\ last_call.out.queried = {1, 2}
    /\ last_call.out.ret.ok
    /\ last_call.out.ret.val.daily_costs = << [ date |-> 2, amount |-> 20 ] >>

\* C15: a call of get_cost_data or get_cost_trend with a bad date range, that
\* is a malformed date string or an end before the start, returns an error,
\* and no request has gone to the provider.
C15_BadRangeRejectedFirst ==
    ( /\ last_call.fn \in {"get_cost_data", "get_cost_trend"}
      /\ \/ ~last_call.start_date.valid
         \/ ~last_call.end_date.valid
         \/ last_call.end_date.rank < last_call.start_date.rank )
        => /\ ~last_call.out.ret.ok
           /\ last_call.out.requests = 0

\* C16: aggregation by service returns exactly one entry per distinct service
\* name of its input, and the entry's amount is the sum of the amounts of the
\* input under that name; this for aggregate_costs_by_service over cost
\* records and for parse_bill_overview over the items of a bill overview.
C16_OneEntryPerService ==
    /\ last_call.fn = "aggregate_costs_by_service"
           => LET costs == last_call.costs
                  out == last_call.out
              IN  /\ { out[j].service : j \in 1..Len(out) }
                         = { costs[i].service : i \in 1..Len(costs) }
                  /\ \A j, k \in 1..Len(out) : out[j].service = out[k].service => j = k
                  /\ \A j \in 1..Len(out) :
                         LET Same(cost) == cost.service = out[j].service
                         IN  out[j].amount = SumAmounts(SelectSeq(costs, Same))
    /\ last_call.fn = "parse_bill_overview"
           => LET items == last_call.items
                  out == last_call.out.details
              IN  /\ { out[j].service : j \in 1..Len(out) }
                         = { items[i].product_name : i \in 1..Len(items) }
                  /\ \A j, k \in 1..Len(out) : out[j].service = out[k].service => j = k
                  /\ \A j \in 1..Len(out) :
                         LET Same(item) == item.product_name = out[j].service
                         IN  out[j].amount = SumPretax(SelectSeq(items, Same))

\* The place of a service name in the ascending order of the names.
ServiceRank(service) == IF service = "EC2" THEN 1 ELSE 2

\* C17: the service details come sorted by amount descending, and entries of
\* equal amount by service name ascending, so that their order is fixed by
\* the records alone.
C17_OrderedWithTieBreak ==
    LET Ordered(out) ==
            \A j \in 1..(Len(out) - 1) :
                \/ out[j].amount > out[j + 1].amount
                \/ /\ out[j].amount = out[j + 1].amount
                   /\ ServiceRank(out[j].service) <= ServiceRank(out[j + 1].service)
    IN  /\ last_call.fn = "aggregate_costs_by_service" => Ordered(last_call.out)
        /\ last_call.fn = "parse_bill_overview" => Ordered(last_call.out.details)

\* C18: a record the provider reports with a negative amount, dated inside
\* the requested window, is among the cost records get_cost_data returns,
\* with its date, service and amount unchanged; and no entry of the service
\* details produced by an aggregation has an amount of zero or below.
C18_NegativesPassedDetailsPositive ==
    /\ ( /\ last_call.fn = "get_cost_data"
         /\ last_call.start_date.valid
         /\ last_call.end_date.valid
         /\ last_call.out.ret.ok )
           => \A i \in 1..Len(last_call.response.items) :
                  LET item == last_call.response.items[i] IN
                  ( /\ item.amount < 0
                    /\ last_call.start_date.rank <= item.date
                    /\ item.date <= last_call.end_date.rank )
                      => \E j \in 1..Len(last_call.out.ret.val) :
                             /\ last_call.out.ret.val[j].date = item.date
                             /\ last_call.out.ret.val[j].service = item.service
                             /\ last_call.out.ret.val[j].amount = item.amount
    /\ last_call.fn = "aggregate_costs_by_service"
           => \A j \in 1..Len(last_call.out) : last_call.out[j].amount > 0
    /\ last_call.fn = "parse_bill_overview"
           => \A j \in 1..Len(last_call.out.details) : last_call.out.details[j].amount > 0

\* C19: aggregation by day returns one DailyCost for each distinct date of its
\* input and no other, the amount of each is the sum of the amounts of the
\* input on that date, and the dates of the list are strictly ascending; the
\* trend of either adapter is such a list.
C19_OnePerDateAscending ==
    LET Ascending(out) == \A j \in 1..(Len(out) - 1) : out[j].date < out[j + 1].date
        Aggregates(out, costs) ==
            /\ { out[j].date : j \in 1..Len(out) } = { costs[i].date : i \in 1..Len(costs) }
            /\ \A j \in 1..Len(out) :
                   LET Same(cost) == cost.date = out[j].date
                   IN  out[j].amount = SumAmounts(SelectSeq(costs, Same))
    IN  /\ last_call.fn = "aggregate_daily_costs"
               => /\ Ascending(last_call.out.daily_costs)
                  /\ Aggregates(last_call.out.daily_costs, last_call.costs)
        /\ ( /\ last_call.fn = "get_cost_trend"
             /\ last_call.out.ret.ok )
               => /\ Ascending(last_call.out.ret.val.daily_costs)
                  /\ last_call.provider = "AWS"
                         => Aggregates(last_call.out.ret.val.daily_costs,
                                       last_call.response.items)

\* Three records, the later date first and twice, have come out as two
\* entries, the earlier date first and the later with the sum of its two.
C19_Witness ==
    /\ last_call.fn = "aggregate_daily_costs"
    /\ last_call.pass = 1
    /\ Len(last_call.costs) = 3
    /\ last_call.costs[1].date = 2
    /\ last_call.costs[2].date = 1
    /\ last_call.costs[3].date = 2
    /\ last_call.out.daily_costs =
           << [ date |-> 1, amount |-> last_call.costs[2].amount ],
              [ date |-> 2, amount |-> last_call.costs[1].amount + last_call.costs[3].amount ] >>

\* C20: an aggregation handed the entries it returned, as records, returns
\* the same entries in the same order, for aggregate_costs_by_service as for
\* aggregate_daily_costs.
C20_Idempotent ==
    /\ ( /\ last_call.fn = "aggregate_costs_by_service"
         /\ last_call.pass = 2 )
           => last_call.out =
                  [ i \in 1..Len(last_call.costs) |->
                      [ service  |-> last_call.costs[i].service,
                        amount   |-> last_call.costs[i].amount,
                        currency |-> last_call.costs[i].currency ] ]
    /\ ( /\ last_call.fn = "aggregate_daily_costs"
         /\ last_call.pass = 2 )
           => last_call.out.daily_costs =
                  [ i \in 1..Len(last_call.costs) |->
                      [ date |-> last_call.costs[i].date, amount |-> last_call.costs[i].amount ] ]

\* ---------------------------------------------------- claims on the signers

\* C21, as claimed: signing the same request twice gives the same
\* Authorization value, and replacing the value of one signed header by any
\* other value gives another signature.
C21_AnyValueChangeChangesSignature ==
    last_call.fn = "sign_request"
        => /\ last_call.first = last_call.again
           /\ last_call.value # last_call.old
                  => last_call.replaced.val.signature # last_call.first.val.signature

\* C21, amended: signing the same request twice gives the same Authorization
\* value, and replacing the value of one signed header changes the signature
\* exactly when the two values differ after trimming.
C21_CanonicalValueChangeChangesSignature ==
    last_call.fn = "sign_request"
        => /\ last_call.first.ok
           /\ last_call.first = last_call.again
           /\ trim(last_call.value) # trim(last_call.old)
                  <=> last_call.replaced.val.signature # last_call.first.val.signature

\* The second of two headers got a value that differs from the old one after
\* trimming, and the signature changed.
C21_Witness ==
    /\ last_call.fn = "sign_request"
    /\ last_call.which = 2
    /\ last_call.old = << "a", " " >>
    /\ last_call.value = << "a", "a" >>
    /\ last_call.first = last_call.again
    /\ last_call.replaced.val.signature # last_call.first.val.signature

\* C22: sign_request_with_region puts the region it was passed, not the
\* region of the account, into the credential scope and into the derivation
\* of the signing key; passed the region of the account, it returns what
\* sign_request returns for the same request.
C22_RegionOverride ==
    last_call.fn = "sign_request_with_region"
        => /\ last_call.out.ok
           /\ last_call.out.val.credential[2][2] = last_call.region
           /\ last_call.out.val.signature.hmac_data[3][2] = last_call.region
           /\ last_call.out.val.signature.hmac_key.hmac_key.hmac_key.hmac_data
                  = last_call.region
           /\ last_call.region = last_call.self_region => last_call.out = last_call.plain

\* A request of an account of eu-west-1 was signed for us-east-1, and the
\* result is not the one sign_request gives.
C22_Witness ==
    /\ last_call.fn = "sign_request_with_region"
    /\ last_call.self_region = "eu-west-1"
    /\ last_call.region = "us-east-1"
    /\ last_call.out.val.credential[2][2] = "us-east-1"
    /\ last_call.out # last_call.plain

\* C23: the signature of the Aliyun signer is the same in whatever order the
\* caller supplied the parameters, and the parameters are signed in
\* ascending byte-wise order of their keys.
C23_OrderIndependent ==
    last_call.fn = "aliyun_sign_request"
        => /\ last_call.signature = last_call.reordered_signature
           /\ \A i \in 1..(Len(last_call.signed) - 1) :
                  KeyRank(last_call.signed[i].k) < KeyRank(last_call.signed[i + 1].k)
           /\ \A i \in 1..Len(last_call.extra_params) :
                  \E j \in 1..Len(last_call.signed) :
                      last_call.signed[j] = last_call.extra_params[i]

\* Two parameters were supplied with the greater key first and again with the
\* smaller key first, and the two signatures are one.
C23_Witness ==
    /\ last_call.fn = "aliyun_sign_request"
    /\ Len(last_call.extra_params) = 2
    /\ last_call.extra_params[1].k = "Granularity"
    /\ last_call.extra_params[2].k = "BillingCycle"
    /\ last_call.reordered = << last_call.extra_params[2], last_call.extra_params[1] >>
    /\ last_call.signature = last_call.reordered_signature

\* ------------------------------------------------ claims on the parsers

\* C24: no response body and no input text makes a parser or the adapter code
\* around it panic: parse_sts_response and the first statement of the Aliyun
\* get_cost_data return a value or an error.
C24_NeverPanics ==
    last_call.fn \in {"parse_sts_response", "billing_cycle"} => ~last_call.out.panic

\* C25: what encrypt made of a plaintext, with whatever nonce it drew, the
\* same CryptoManager decrypts to exactly that plaintext.
C25_RoundTrip ==
    /\ last_call.fn = "encrypt" => last_call.encrypted.ok
    /\ last_call.fn = "decrypt" => last_call.decrypted = Ok(last_call.plaintext)

\* A plaintext of two different bytes was encrypted under a nonce that is not
\* all zeros, into a text that does not hold it in the clear, and decrypted.
C25_Witness ==
    /\ last_call.fn = "decrypt"
    /\ last_call.plaintext = << 1, 2 >>
    /\ last_call.nonce = << 3, 2 >>
    /\ last_call.encrypted.val # Base64Encode(last_call.nonce \o last_call.plaintext)
    /\ Len(last_call.encrypted.val) = NonceLen + 3
    /\ last_call.decrypted = Ok(<< 1, 2 >>)

\* ------------------------------------------- claims on the connection lock

\* A cache entry as one reader sees it is whole when all its rows come from
\* the same save, or all are absent.
WholeEntry(rows) == \A d1, d2 \in Dates : rows[d1] = rows[d2]

C27_NoDeadlock ==
    /\ [](\A t \in DbThreads : DbStep(t) = "lock" => db_lock.guard # Some(t))
    /\ \A t \in DbThreads : (DbStep(t) = "lock") ~> InBody(t)

\* C27 witness: the refresh worker has got the guard for its summary read
\* while the trend worker and the UI thread both wait in get_connection().
C27_Witness ==
    /\ db_lock.th["refresh"].fn = "get_cached_cost_summary_with_account"
    /\ InBody("refresh")
    /\ db_lock.guard = Some("refresh")
    /\ DbStep("trend") = "lock"
    /\ DbStep("ui") = "lock"
    /\ db_lock.th["trend"].calls > 0

\* ------------------------------------------ claims on overlapping refreshes

\* The refreshes started so far, and the one started last.
StartedBatches == { b \in BatchIds : batch[b].pc # "idle" }
LatestBatch == CHOOSE b \in StartedBatches : \A c \in StartedBatches : c <= b

\* C28: overlapping refreshes.  Once no refresh is in flight any more and
\* the refresh started last has delivered its summaries, the view shows
\* those summaries: an earlier refresh that completes later does not
\* overwrite them.
C28_LatestRefreshShown ==
    ( /\ StartedBatches # {}
      /\ \A b \in StartedBatches : batch[b].recv # "waiting"
      /\ batch[LatestBatch].recv = "ok" )
        => ui.summaries = batch[LatestBatch].sent[1].val

\* C29: force refresh bypasses the cache.  No summary delivered by a
\* refresh that force_refresh started was served from a cache entry.
C29_ForcedNeverFromCache ==
    \A b \in BatchIds :
        (batch[b].forced /\ batch[b].recv = "ok")
            => \A i \in 1..Len(batch[b].log) : batch[b].log[i].src # "cache"

\* --------------------------------------------- claims on the trend loading

\* C30: single-flight trend loading.  For every account at most one worker
\* thread of a trend load is running at any time.
C30_SingleFlight ==
    \A a \in AccountIds : Cardinality(RunningLoads(a)) <= 1

====
